---- MODULE Spec2Model ----
(***************************************************************************)
(* Model of the viral-index scripts of the repository:                     *)
(*   - analysis/calculate_weekly_viral_index.py  (weekly index)            *)
(*   - 월별 바이럴 지수/calculate_viral_index.py    (monthly index, top 3)    *)
(*   - analysis/correlation/calc_indicators.py   (surge/share score, top 3)*)
(*   - bestseller-crawler/categorize_books.py    (categorize_book)         *)
(*   - bestseller-crawler/kyobo_bestseller_crawler.py                      *)
(*       (clear_supabase_data, save_to_supabase, get_bestseller_list)      *)
(*   - bestseller-crawler/categorize_by_title.py (categorize_by_title)     *)
(*   - kyobo_review_crawler/kyobo_review_crawler.py                        *)
(*       (fetch_book_reviews, save_reviews_to_supabase)                    *)
(*                                                                         *)
(* Numbers.  pandas computes in float64.  The model keeps the three        *)
(* special outcomes of float arithmetic apart (a number, NaN, +inf) and    *)
(* represents a number in fixed point: signals carry SCALE = 100 units per *)
(* 1.0, composite scores carry CSCALE = 1000 units per 1.0 (so that the    *)
(* weights 0.4/0.4/0.2 and 0.5/0.3/0.2 are the integers 4/4/2 and 5/3/2).  *)
(* Counts, sums and window lengths are exact integers.                     *)
(***************************************************************************)
EXTENDS Integers, Sequences, FiniteSets, TLC

VARIABLES
    script,         \* the script or function that runs: "weekly", "monthly",
                    \* "indicators", "categorize", "clear", "save", "list",
                    \* "reviews", "save_reviews", "categorize_books",
                    \* "categorize_by_title"
    pc,             \* position of the script
    df,             \* the input table: a sequence of rows <<time, label>>
    rows,           \* the rows that enter the aggregation
    count_df,       \* weekly_counts / count_df : period x category matrix
    growth,         \* wow_growth / mom_growth
    ma_deviation,   \* ma_deviation
    z_scores,       \* z_scores
    viral_index,    \* viral_index
    top3,           \* viral_results (monthly) / printed top 3 (indicators)
    news,           \* calc_indicators: df_news, one record per category
    surge_data,     \* calc_indicators: surge_data
    share_data,     \* calc_indicators: share_data
    viral_data,     \* calc_indicators: viral_data
    cursor,         \* position of the loop over the months of the top 3
    enabled,        \* SUPABASE_ENABLED
    requests,       \* the ranges requested from the store, in order
    result_df,      \* weekly: the rows of the output table
    saved,          \* the output file(s) of the script are written
    first,          \* the outcome of the preceding run on the same input
    sorted_as,      \* the orders sort_values has returned, per score vector
    keywords_str,   \* categorize_book: the argument
    categories,     \* categorize_book: the returned list
    store,          \* the rows held by the tables reviews, bestsellers, books
    initial,        \* the tables when clear_supabase_data is called
    log,            \* the delete statements issued, with their outcome
    ret,            \* the value returned by clear_supabase_data
    books,          \* the list of books a crawler function works on
    all_links,      \* get_bestseller_list: the product links of the page
    seen_urls,      \* get_bestseller_list: seen_urls
    pages,          \* the answers of the review API, page by page
    all_reviews,    \* fetch_book_reviews: all_reviews
    reviews,        \* save_reviews_to_supabase: the argument
    sent,           \* the requests sent to the store or the API, in order
    db,             \* the rows of the books table
    counts          \* the counters and the limit of a loop

\* the state of the bestseller crawler scripts
crawler == <<keywords_str, categories, store, initial, log, ret>>

\* the state of the crawler functions that list, fetch and save
scraper == <<books, all_links, seen_urls, pages, all_reviews, reviews, sent,
             db, counts>>

vars == <<script, pc, df, rows, count_df, growth, ma_deviation, z_scores,
          viral_index, top3, news, surge_data, share_data, viral_data, cursor,
          enabled, requests, result_df, saved, first, sorted_as, crawler, scraper>>

----------------------------------------------------------------------------
(* Bounds of the model *)

NumPeriods == 5     \* calendar periods (weeks or months) the input may span
MaxCount == 5       \* largest number of rows of one (period, label) cell
MatPeriods == 3     \* periods of the inputs of SpecMatrix
RankPeriods == 2    \* periods of the inputs of SpecRank
LongPeriods == 12   \* periods of the inputs of SpecLong
MaxCats == 4        \* categories of the input of calc_indicators
TwicePeriods == 2   \* periods of the inputs of SpecTwice
ExamplePeriods == 3 \* periods of the inputs of SpecExample
MaxTable == 2001    \* rows of the source table of SpecFetch
DirtyRows == 3      \* rows of the source table of SpecDirty
MaxWeek == 60       \* weeks after 2025-01-01 of the rows of SpecCalendar
MaxTokens == 3      \* comma-separated tokens of the argument of categorize_book
MaxRows == 2        \* rows of a table of the crawler
MaxBooks == 3       \* books of the argument of save_to_supabase
MaxLinks == 21      \* distinct product links of the bestseller page
MaxPages == 3       \* largest max_pages of fetch_book_reviews
MaxReviews == 201   \* reviews of the argument of save_reviews_to_supabase
MaxShelf == 3       \* rows of the books table of the categorisation scripts

(* Fixed-point units *)
SCALE == 100
CSCALE == 10 * SCALE

----------------------------------------------------------------------------
(* float64 values: a number (fixed point), NaN or +inf *)

Num(x) == [t |-> "num", v |-> x]
NaN == [t |-> "nan", v |-> 0]
PosInf == [t |-> "inf", v |-> 0]

IsNum(a) == a.t = "num"
IsNaN(a) == a.t = "nan"
IsInf(a) == a.t = "inf"

Abs(x) == IF x < 0 THEN -x ELSE x
Sign(x) == IF x < 0 THEN -1 ELSE IF x > 0 THEN 1 ELSE 0

\* a / b rounded to the nearest integer (b > 0)
RoundDiv(a, b) == Sign(a) * ((2 * Abs(a) + b) \div (2 * b))

\* floor of the square root of x >= 0, by bisection on lo..hi
RECURSIVE IsqrtIn(_, _, _)
IsqrtIn(x, lo, hi) ==
    IF lo >= hi THEN lo
    ELSE LET mid == (lo + hi + 1) \div 2
         IN IF mid * mid <= x THEN IsqrtIn(x, mid, hi) ELSE IsqrtIn(x, lo, mid - 1)

Isqrt(x) == IsqrtIn(x, 0, IF x < 40000 THEN x ELSE 40000)

\* Series.fillna(0)
FillNa0(a) == IF IsNaN(a) THEN Num(0) ELSE a

\* a * k for an integer k > 0
Times(a, k) == IF IsNum(a) THEN Num(a.v * k) ELSE a

\* a + b of float64: NaN is contagious, +inf absorbs numbers
Plus(a, b) ==
    IF IsNaN(a) \/ IsNaN(b) THEN NaN
    ELSE IF IsInf(a) \/ IsInf(b) THEN PosInf
    ELSE Num(a.v + b.v)

\* a > b of float64 (false when either is NaN)
Greater(a, b) ==
    IF IsNaN(a) \/ IsNaN(b) THEN FALSE
    ELSE IF IsInf(a) THEN ~IsInf(b)
    ELSE IF IsInf(b) THEN FALSE
    ELSE a.v > b.v

----------------------------------------------------------------------------
(* Sequences and sets *)

Range(s) == {s[i] : i \in DOMAIN s}

SeqSum(s) == LET RECURSIVE F(_)
                 F(i) == IF i = 0 THEN 0 ELSE s[i] + F(i - 1)
             IN F(Len(s))

\* the labels the scripts see; Python sorts them as strings, the model in
\* this order
LabelOrder == <<"c1", "c2", "c3", "c4", "c5", "unclassified">>
Labels == Range(LabelOrder)
LabelPos(l) == CHOOSE i \in DOMAIN LabelOrder : LabelOrder[i] = l

\* '미분류': the label the monthly script drops
Unclassified == "unclassified"

\* sorted(set) for a set of integers
RECURSIVE SortedInts(_)
SortedInts(S) ==
    IF S = {} THEN <<>>
    ELSE LET m == CHOOSE x \in S : \A y \in S : x <= y
         IN <<m>> \o SortedInts(S \ {m})

\* sorted(set) for a set of labels
RECURSIVE SortedLabels(_)
SortedLabels(S) ==
    IF S = {} THEN <<>>
    ELSE LET m == CHOOSE x \in S : \A y \in S : LabelPos(x) <= LabelPos(y)
         IN <<m>> \o SortedLabels(S \ {m})

----------------------------------------------------------------------------
(* Data frames: index (periods), columns (labels), val[<<period, label>>] *)

Keys(idx, cols) == Range(idx) \X Range(cols)

Frame(idx, cols, v) == [index |-> idx, columns |-> cols, val |-> v]

EmptyFrame == [index |-> <<>>, columns |-> <<>>, val |-> [k \in {} |-> 0]]

\* position of period p in the index of frame m
Pos(m, p) == CHOOSE i \in DOMAIN m.index : m.index[i] = p

\* the column of label c as a sequence of integers, in index order
Column(m, c) == [i \in DOMAIN m.index |-> m.val[<<m.index[i], c>>]]

\* number of rows of table d with label c whose bucket, given per row by the
\* sequence bs, is p
CountRows(d, bs, p, c) ==
    Cardinality({i \in DOMAIN d : bs[i] = p /\ d[i][2] = c})

----------------------------------------------------------------------------
(* calculate_weekly_viral_index.py *)

\* pd.Grouper(key='date', freq='W-TUE'): a date is a day number, day 0 a
\* Wednesday; the bucket of a date is the Tuesday that ends its week
WeekEnd(d) == 7 * (d \div 7) + 6

\* variant: groupby(..., sort=False), the columns come in the order in which
\* the labels first appear in the table
WeeklyCountsInRowOrder(d) ==
    LET idx == SortedInts({WeekEnd(d[i][1]) : i \in DOMAIN d})
        RECURSIVE seen(_)
        seen(k) == IF k = 0 THEN <<>>
                   ELSE IF d[k][2] \in Range(seen(k - 1)) THEN seen(k - 1)
                   ELSE Append(seen(k - 1), d[k][2])
        cols == seen(Len(d))
        size(p, c) == CountRows(d, [i \in DOMAIN d |-> WeekEnd(d[i][1])], p, c)
    IN Frame(idx, cols, [k \in Keys(idx, cols) |-> size(k[1], k[2])])

\* groupby([Grouper, 'category']).size().unstack(level=1).fillna(0): only
\* the observed weeks become rows, only the observed labels columns; a
\* (week, label) pair without rows is NaN after unstack and 0 after fillna
WeeklyCounts(d) ==
    LET idx == SortedInts({WeekEnd(d[i][1]) : i \in DOMAIN d})
        cols == SortedLabels({d[i][2] : i \in DOMAIN d})
        size(p, c) == CountRows(d, [i \in DOMAIN d |-> WeekEnd(d[i][1])], p, c)
        unstacked(p, c) == IF size(p, c) = 0 THEN NaN ELSE Num(size(p, c))
    IN Frame(idx, cols, [k \in Keys(idx, cols) |-> FillNa0(unstacked(k[1], k[2])).v])

\* variant: shift(1, fill_value=0), the first row grows from a count of 0
WowGrowthFromZero(col, i) ==
    Num(RoundDiv((col[i] - (IF i = 1 THEN 0 ELSE col[i - 1])) * 100 * SCALE,
                 (IF i = 1 THEN 0 ELSE col[i - 1]) + 1))

\* ((weekly_counts - prev_counts) / (prev_counts + 1)) * 100 with
\* prev_counts = weekly_counts.shift(1), for row i of column col
WowGrowth(col, i) ==
    IF i = 1 THEN NaN
    ELSE Num(RoundDiv((col[i] - col[i - 1]) * 100 * SCALE, col[i - 1] + 1))

\* the window of rolling(window=w, min_periods=1) that ends at row i
Window(col, i, w) == SubSeq(col, IF i - w + 1 < 1 THEN 1 ELSE i - w + 1, i)

\* ((weekly_counts - ma4) / (ma4 + 1)) * 100 with ma4 the rolling mean s / k
WeeklyMaDeviation(col, i) ==
    LET win == Window(col, i, 4)
        s == SeqSum(win)
        k == Len(win)
    IN Num(RoundDiv((col[i] * k - s) * 100 * SCALE, s + k))

\* n * sum(x^2) - sum(x)^2 = n * (n - 1) * var(ddof=1) of a column
SpreadOf(col) ==
    LET n == Len(col)
        s == SeqSum(col)
    IN n * SeqSum([i \in DOMAIN col |-> col[i] * col[i]]) - s * s

\* (x - mean) / std of row i, with std = DataFrame.std() (ddof = 1), for a
\* column of spread q > 0:  z^2 = (n*x - s)^2 * (n - 1) / (n * q)
ZValue(col, i) ==
    LET n == Len(col)
        d == n * col[i] - SeqSum(col)
    IN Sign(d) * Isqrt((SCALE * SCALE * d * d * (n - 1)) \div (n * SpreadOf(col)))

\* (weekly_counts - weekly_counts.mean()) / (weekly_counts.std() + 1e-9):
\* std of a single row is NaN; a constant column gives 0 / 1e-9 = 0; else
\* 1e-9 is below the resolution of the fixed point
WeeklyZScore(col, i) ==
    IF Len(col) = 1 THEN NaN
    ELSE IF SpreadOf(col) = 0 THEN Num(0)
    ELSE Num(ZValue(col, i))

\* Series.clip(upper=u): NaN stays NaN
ClipUpper(a, u) ==
    IF IsNaN(a) THEN a
    ELSE IF IsInf(a) THEN Num(u)
    ELSE IF a.v > u THEN Num(u) ELSE a

\* Series.clip(lower=l, upper=u): NaN stays NaN
ClipBoth(a, l, u) ==
    IF IsNaN(a) THEN a
    ELSE IF IsInf(a) THEN Num(u)
    ELSE IF a.v > u THEN Num(u) ELSE IF a.v < l THEN Num(l) ELSE a

\* the three terms of the weekly viral_index, in CSCALE units
WeeklyGrowthTerm(g) == Times(FillNa0(ClipUpper(g, 300 * SCALE)), 4)
WeeklyDeviationTerm(d) == Times(FillNa0(ClipUpper(d, 300 * SCALE)), 4)
\* variant: the Z-score enters the composite without clip(lower=-3, upper=3)
WeeklyZTermUnclipped(z) == Times(FillNa0(z), 10 * 2)

WeeklyZTerm(z) == Times(FillNa0(ClipBoth(z, -3 * SCALE, 3 * SCALE)), 10 * 2)

WeeklyViral(g, d, z) ==
    Plus(Plus(WeeklyGrowthTerm(g), WeeklyDeviationTerm(d)), WeeklyZTerm(z))

\* page_size = 1000
page_size == 1000

\* .range(lo, hi).execute().data: the rows of the table at the offsets
\* lo..hi that exist, in the order of the table
RangeOf(table, lo, hi) ==
    SubSeq(table, lo + 1, IF hi + 1 < Len(table) THEN hi + 1 ELSE Len(table))

\* variant: a page of exactly page_size rows ends the loop too
LastPageOrFull(data) == Len(data) <= page_size

\* if len(data) < page_size: break
LastPage(data) == Len(data) < page_size

\* variant: the next range starts on the last row of the one before
NextOffsetOverlapping(offset) == offset + page_size - 1

\* offset += page_size
NextOffset(offset) == offset + page_size

\* the while loop of fetch_news_data_from_db from offset on: the ranges
\* requested so far are reqs, the rows accumulated so far are all_data
RECURSIVE FetchPages(_, _, _, _)
FetchPages(table, offset, all_data, reqs) ==
    LET data == RangeOf(table, offset, offset + page_size - 1)
        asked == Append(reqs, <<offset, offset + page_size - 1>>)
    IN IF data = <<>> THEN [all_data |-> all_data, requests |-> asked]
       ELSE IF LastPage(data)
            THEN [all_data |-> all_data \o data, requests |-> asked]
            ELSE FetchPages(table, NextOffset(offset), all_data \o data, asked)

\* a news_date that pd.to_datetime cannot parse, and the category None
BadDate == -1
NoCategory == "none"

\* pd.to_datetime(df['date']) raises on a value it cannot parse
HasBadDate(d) == \E i \in DOMAIN d : d[i][1] = BadDate

\* groupby(...) leaves out the rows whose key 'category' is missing
Grouped(d) == SelectSeq(d, LAMBDA r : r[2] # NoCategory)

\* Timestamp.year, .month, .day: day 0 is Wednesday 2025-01-01
IsLeap(y) == (y % 4 = 0 /\ y % 100 # 0) \/ y % 400 = 0
DaysInMonth(y, m) ==
    IF m = 2 THEN (IF IsLeap(y) THEN 29 ELSE 28)
    ELSE IF m \in {4, 6, 9, 11} THEN 30 ELSE 31

\* the date n days after the first day of month m of year y
RECURSIVE CivilFrom(_, _, _)
CivilFrom(y, m, n) ==
    IF n < DaysInMonth(y, m) THEN [year |-> y, month |-> m, day |-> n + 1]
    ELSE CivilFrom(IF m = 12 THEN y + 1 ELSE y, IF m = 12 THEN 1 ELSE m + 1,
                   n - DaysInMonth(y, m))

DateOf(t) == CivilFrom(2025, 1, t)

\* f"{n:0wd}": the decimal digits of n, padded with zeros to w digits
RECURSIVE Digits(_, _)
Digits(n, w) ==
    IF n < 10 /\ w <= 1 THEN <<n>> ELSE Digits(n \div 10, w - 1) \o <<n % 10>>

\* variant: the week of the month counts from the day, not from day - 1
generate_ymw_from_day(dt) ==
    Digits(dt.year, 1) \o Digits(dt.month, 2) \o Digits(dt.day \div 7 + 1, 1)

\* generate_ymw: f"{year}{month:02d}{week}" with week = (day - 1) // 7 + 1
generate_ymw(dt) ==
    Digits(dt.year, 1) \o Digits(dt.month, 2) \o Digits((dt.day - 1) \div 7 + 1, 1)

\* strftime('%Y.%m.%d'): the three fields that the dots separate
Strftime(dt) == <<Digits(dt.year, 4), Digits(dt.month, 2), Digits(dt.day, 2)>>

\* start.strftime(...) + " ~ " + end.strftime(...)
BestsellerWeek(start, end) ==
    [from |-> Strftime(DateOf(start)), sep |-> " ~ ", to |-> Strftime(DateOf(end))]

\* the rows of result_df: viral_df.stack() merged with counts_df.stack() on
\* end_date and category, with start_date, ymw and bestseller_week
ResultRows(cnt, vi) ==
    LET nc == Len(cnt.columns)
    IN [k \in 1..(Len(cnt.index) * nc) |->
          LET end == cnt.index[((k - 1) \div nc) + 1]
              c == cnt.columns[((k - 1) % nc) + 1]
          IN [ymw |-> generate_ymw(DateOf(end)),
              bestseller_week |-> BestsellerWeek(end - 6, end),
              category |-> c,
              viral_index |-> vi.val[<<end, c>>],
              article_count |-> cnt.val[<<end, c>>],
              start_date |-> end - 6,
              end_date |-> end]]

----------------------------------------------------------------------------
(* 월별 바이럴 지수/calculate_viral_index.py *)

\* the '년월' column holds the month itself
MonthOf(t) == t

\* df[df['카테고리'] != '미분류']
Classified(d) == SelectSeq(d, LAMBDA r : r[2] # Unclassified)

\* variant: the count of a category is taken over the whole table instead of
\* the rows of the month
MonthlyCountsOfTable(d) ==
    LET idx == SortedInts({MonthOf(d[i][1]) : i \in DOMAIN d})
        cols == SortedLabels({d[i][2] : i \in DOMAIN d})
    IN Frame(idx, cols, [k \in Keys(idx, cols) |->
                            Cardinality({i \in DOMAIN d : d[i][2] = k[2]})])

\* months = sorted(unique), categories = sorted(unique), and
\* monthly_counts[month][cat] = len(rows of that month and category)
MonthlyCounts(d) ==
    LET idx == SortedInts({MonthOf(d[i][1]) : i \in DOMAIN d})
        cols == SortedLabels({d[i][2] : i \in DOMAIN d})
    IN Frame(idx, cols, [k \in Keys(idx, cols) |->
                            CountRows(d, [i \in DOMAIN d |-> MonthOf(d[i][1])], k[1], k[2])])

\* count_df.pct_change() * 100 for row i of column col: x / prev - 1, which
\* is NaN for 0 / 0 and +inf for x / 0 with x > 0
MomGrowth(col, i) ==
    IF i = 1 THEN NaN
    ELSE IF col[i - 1] = 0 THEN (IF col[i] = 0 THEN NaN ELSE PosInf)
    ELSE Num(RoundDiv((col[i] - col[i - 1]) * 100 * SCALE, col[i - 1]))

\* ((count_df - ma3) / ma3) * 100 with ma3 the rolling mean s / k; a window
\* of zeros gives 0 / 0 = NaN
MonthlyMaDeviation(col, i) ==
    LET win == Window(col, i, 3)
        s == SeqSum(win)
        k == Len(win)
    IN IF s = 0 THEN NaN
       ELSE Num(RoundDiv((col[i] * k - s) * 100 * SCALE, s))

\* (count_df - count_df.mean()) / count_df.std(): std of a single row is
\* NaN, a constant column gives 0 / 0 = NaN
MonthlyZScore(col, i) ==
    IF Len(col) = 1 THEN NaN
    ELSE IF SpreadOf(col) = 0 THEN NaN
    ELSE Num(ZValue(col, i))

\* the three terms of the monthly viral_index, in CSCALE units
MonthlyGrowthTerm(g) == Times(FillNa0(g), 5)
MonthlyDeviationTerm(d) == Times(FillNa0(d), 3)
\* variant: the Z-score enters the composite without fillna(0)
MonthlyZTermUnfilled(z) == Times(z, 20 * 2)

MonthlyZTerm(z) == Times(FillNa0(z), 20 * 2)

MonthlyViral(g, d, z) ==
    Plus(Plus(MonthlyGrowthTerm(g), MonthlyDeviationTerm(d)), MonthlyZTerm(z))

\* round(x, 1) of a CSCALE value, in tenths
Round1(a) == IF IsNum(a) THEN Num(RoundDiv(a.v, CSCALE \div 10)) ELSE a

\* the value "N/A" of the column '전월대비'
NotAvailable == [t |-> "n/a", v |-> 0]

\* f"{x:+.1f}%" of a value of x tenths of a percent: the sign, then the
\* digits
SignedPercent(x) ==
    [t |-> "pct", sign |-> IF x < 0 THEN "-" ELSE "+", v |-> Abs(x)]

\* variant: the displayed change is read off the growth signal, which is
\* infinite (or NaN) after a month without articles
MomChangeOfGrowth(m, i, c) ==
    IF i > 1
    THEN LET actual == m.val[<<m.index[i], c>>]
             prev == m.val[<<m.index[i - 1], c>>]
         IN IF prev > 0 THEN SignedPercent(RoundDiv((actual - prev) * 1000, prev))
            ELSE IF actual > 0 THEN PosInf ELSE NaN
    ELSE NotAvailable

\* '전월대비' of category c in the month at position i: the change of the
\* count against the preceding month in percent, to one decimal
MomChange(m, i, c) ==
    IF i > 1
    THEN LET actual == m.val[<<m.index[i], c>>]
             prev == m.val[<<m.index[i - 1], c>>]
         IN IF prev > 0 THEN SignedPercent(RoundDiv((actual - prev) * 1000, prev))
            ELSE SignedPercent(0)
    ELSE NotAvailable

\* s is a descending order of the labels of set S by score[_]: what
\* Series.sort_values(ascending=False) returns. Its default kind is
\* 'quicksort', which is not stable, so labels of equal score come in an
\* order the library is free to choose.
IsSortedDesc(s, S, score) ==
    /\ Len(s) = Cardinality(S)
    /\ Range(s) = S
    /\ \A i, j \in DOMAIN s : i < j => ~Greater(score[s[j]], score[s[i]])

\* Series.head(n)
Head3(s) == SubSeq(s, 1, IF Len(s) < 3 THEN Len(s) ELSE 3)

\* the entries appended to viral_results for the month at position i, given
\* the sorted order s of the categories
MonthEntries(cnt, vi, i, s) ==
    [r \in DOMAIN Head3(s) |->
        [month |-> cnt.index[i],
         rank |-> r,
         cat |-> s[r],
         score |-> Round1(vi.val[<<cnt.index[i], s[r]>>]),
         count |-> cnt.val[<<cnt.index[i], s[r]>>],
         mom |-> MomChange(cnt, i, s[r])]]

----------------------------------------------------------------------------
(* analysis/correlation/calc_indicators.py *)

\* months = ['2025-09', '2025-10', '2025-11', '2025-12']
NumMonths == 4

\* categories = df_news['카테고리'].tolist()
Categories(nw) == [k \in DOMAIN nw |-> nw[k].cat]

\* the row of df_news of category c
NewsRow(nw, c) == nw[CHOOSE k \in DOMAIN nw : nw[k].cat = c]

\* surge: round((vals[i] - vals[i-1]) / vals[i-1] * 100, 1), or 0 when the
\* previous month has no article; in tenths of a percent
Surge(vals) ==
    [i \in 1..(Len(vals) - 1) |->
        IF vals[i] > 0 THEN RoundDiv((vals[i + 1] - vals[i]) * 1000, vals[i])
        ELSE 0]

\* shift: round(shares[i] - shares[i-1], 2); shares are hundredths of a
\* percent
Shift(shares) == [i \in 1..(Len(shares) - 1) |-> shares[i + 1] - shares[i]]

\* variant: min(x, hi), without the lower limit
ClampAbove(x, lo, hi) == IF x > hi THEN hi ELSE x

\* min(max(x, lo), hi)
Clamp(x, lo, hi) == IF x < lo THEN lo ELSE IF x > hi THEN hi ELSE x

\* round((surge_norm * 0.5 + share_norm * 0.5) * 100, 1) in tenths, with
\* surge_norm = clamp(surge / 100, -1, 1), share_norm = clamp(shift / 5, -1, 1)
ViralScore(surge, shift) ==
    LET surge_norm == Clamp(surge, -1000, 1000)     \* in 1/1000
        share_norm == Clamp(shift, -500, 500)       \* in 1/500
    IN RoundDiv(surge_norm + 2 * share_norm, 2)

\* insertion of x into the descending sequence s behind every element whose
\* key is at least the key of x
RECURSIVE InsertDesc(_, _)
InsertDesc(s, x) ==
    IF s = <<>> THEN <<x>>
    ELSE IF Head(s).key >= x.key THEN <<Head(s)>> \o InsertDesc(Tail(s), x)
    ELSE <<x>> \o s

\* sorted(s, key=..., reverse=True) of Python: stable, elements of equal key
\* keep their order in s
RECURSIVE SortedReverse(_)
SortedReverse(s) ==
    IF s = <<>> THEN <<>>
    ELSE InsertDesc(SortedReverse(SubSeq(s, 1, Len(s) - 1)), s[Len(s)])

\* sorted(categories, key=lambda x: viral_data[x][i], reverse=True)
SortedCats(cats, vd, i) ==
    LET keyed == [k \in DOMAIN cats |-> [cat |-> cats[k], key |-> vd[cats[k]][i]]]
        sorted == SortedReverse(keyed)
    IN [k \in DOMAIN sorted |-> sorted[k].cat]

----------------------------------------------------------------------------
(* bestseller-crawler/categorize_books.py *)

\* A string is the sequence of its characters.

\* the argument None of categorize_book (no string, not the empty string)
NoText == <<"None">>

\* CATEGORY_KEYWORDS, in the order of the dict, restricted to the keywords
\* written in Latin letters: 주식투자/트레이딩 (stock), 거시경제/금융정책 (macro),
\* 기업경영/리더십 (management), 테크/스타트업 (tech)
CATEGORY_KEYWORDS ==
    <<[category |-> "stock", keywords |-> <<<<"e", "t", "f">>>>],
      [category |-> "macro", keywords |-> <<<<"g", "d", "p">>>>],
      [category |-> "management",
       keywords |-> <<<<"c", "e", "o">>, <<"i", "p", "o">>>>],
      [category |-> "tech",
       keywords |-> <<<<"A", "I">>, <<"a", "i">>, <<"h", "b", "m">>,
                      <<"c", "e", "s">>>>]>>

\* str.lower()
LowerChar(c) == IF c = "A" THEN "a" ELSE IF c = "I" THEN "i" ELSE c
Lower(s) == [k \in DOMAIN s |-> LowerChar(s[k])]

\* str.strip()
RECURSIVE Strip(_)
Strip(s) ==
    IF s = <<>> THEN s
    ELSE IF Head(s) = " " THEN Strip(Tail(s))
    ELSE IF s[Len(s)] = " " THEN Strip(SubSeq(s, 1, Len(s) - 1))
    ELSE s

\* str.split(',')
RECURSIVE Split(_)
Split(s) ==
    IF \A k \in DOMAIN s : s[k] # ","
    THEN <<s>>
    ELSE LET k == CHOOSE i \in DOMAIN s :
                      s[i] = "," /\ \A j \in 1..(i - 1) : s[j] # ","
         IN <<SubSeq(s, 1, k - 1)>> \o Split(SubSeq(s, k + 1, Len(s)))

\* a in b for strings: a is a substring of b
In(a, b) ==
    \E k \in 0..(Len(b) - Len(a)) : SubSeq(b, k + 1, k + Len(a)) = a

\* keyword in cat_kw.lower() or cat_kw.lower() in keyword
PartialMatch(keyword, cat_kw) ==
    In(keyword, Lower(cat_kw)) \/ In(Lower(cat_kw), keyword)

\* variant: without the break, every matching keyword of the category adds 1
HitsOfAll(keyword, cat_keywords) ==
    Cardinality({k \in DOMAIN cat_keywords : PartialMatch(keyword, cat_keywords[k])})

\* for cat_kw in cat_keywords: if ...: += 1; break
Hits(keyword, cat_keywords) ==
    IF \E k \in DOMAIN cat_keywords : PartialMatch(keyword, cat_keywords[k])
    THEN 1 ELSE 0

\* category_scores[category] += n on a Counter kept in insertion order
Bump(scores, category, n) ==
    IF n = 0 THEN scores
    ELSE IF \E k \in DOMAIN scores : scores[k].cat = category
    THEN [k \in DOMAIN scores |->
            IF scores[k].cat = category
            THEN [cat |-> category, key |-> scores[k].key + n] ELSE scores[k]]
    ELSE Append(scores, [cat |-> category, key |-> n])

\* for category, cat_keywords in CATEGORY_KEYWORDS.items(), from position c
RECURSIVE ScoreCategories(_, _, _)
ScoreCategories(scores, keyword, c) ==
    IF c > Len(CATEGORY_KEYWORDS) THEN scores
    ELSE ScoreCategories(Bump(scores, CATEGORY_KEYWORDS[c].category,
                              Hits(keyword, CATEGORY_KEYWORDS[c].keywords)),
                         keyword, c + 1)

\* for keyword in keywords, from position k
RECURSIVE ScoreKeywords(_, _, _)
ScoreKeywords(scores, keywords, k) ==
    IF k > Len(keywords) THEN scores
    ELSE ScoreKeywords(ScoreCategories(scores, keywords[k], 1), keywords, k + 1)

\* categorize_book(keywords_str); Counter.most_common() is a stable sort by
\* descending count
categorize_book(str) ==
    IF str = NoText \/ str = <<>> THEN <<>>
    ELSE LET keywords == [k \in DOMAIN Split(str) |-> Lower(Strip(Split(str)[k]))]
             category_scores == ScoreKeywords(<<>>, keywords, 1)
             most_common == SortedReverse(category_scores)
             ranked == SelectSeq(most_common, LAMBDA e : e.key >= 1)
         IN Head3([k \in DOMAIN ranked |-> ranked[k].cat])

----------------------------------------------------------------------------
(* bestseller-crawler/categorize_by_title.py *)

\* categorize_by_title(title): every keyword found in the title adds its
\* length to the score of its category; the Counter holds the categories
\* that scored, in the order of CATEGORY_KEYWORDS
categorize_by_title(title) ==
    IF title = NoText \/ title = <<>> THEN <<>>
    ELSE LET title_lower == Lower(title)
             score(c) ==
                 LET keywords == CATEGORY_KEYWORDS[c].keywords
                 IN SeqSum([k \in DOMAIN keywords |->
                              IF In(Lower(keywords[k]), title_lower)
                              THEN Len(keywords[k]) ELSE 0])
             category_scores ==
                 SelectSeq([c \in DOMAIN CATEGORY_KEYWORDS |->
                              [cat |-> CATEGORY_KEYWORDS[c].category,
                               key |-> score(c)]],
                           LAMBDA e : e.key > 0)
             ranked == SelectSeq(SortedReverse(category_scores),
                                 LAMBDA e : e.key >= 1)
         IN Head3([k \in DOMAIN ranked |-> ranked[k].cat])

\* variant: the select without the filter on category_1
is_any(table) == table

\* .is_('category_1', 'null'): the rows whose category_1 is null
is_null(table) == SelectSeq(table, LAMBDA row : row.category_1 = "null")

----------------------------------------------------------------------------
(* bestseller-crawler/categorize_books.py: main *)

\* variant: the categories are written from category_3 down
update_data_from_right(cats) ==
    [category_1 |-> IF Len(cats) > 2 THEN cats[3] ELSE "null",
     category_2 |-> IF Len(cats) > 1 THEN cats[2] ELSE "null",
     category_3 |-> IF Len(cats) > 0 THEN cats[1] ELSE "null"]

\* update_data of main (the same in categorize_by_title.py); "null" is None
update_data(cats) ==
    [category_1 |-> IF Len(cats) > 0 THEN cats[1] ELSE "null",
     category_2 |-> IF Len(cats) > 1 THEN cats[2] ELSE "null",
     category_3 |-> IF Len(cats) > 2 THEN cats[3] ELSE "null"]

----------------------------------------------------------------------------
(* bestseller-crawler/kyobo_bestseller_crawler.py: clear_supabase_data *)

\* variant: the books table is emptied first
DeleteOrderBooksFirst == <<"books", "reviews", "bestsellers">>

\* the delete statements of the try block, in the order of the code
DeleteOrder == <<"reviews", "bestsellers", "books">>

----------------------------------------------------------------------------
(* bestseller-crawler/kyobo_bestseller_crawler.py: save_to_supabase *)

\* A BookInfo is the record of its product_code, title, bestseller_month and
\* rank; the product_code "" stands for an empty or missing code.

\* variant: a later book of the same product_code replaces the record
books_data_of_last(bs) ==
    LET last(c) == CHOOSE k \in DOMAIN bs :
                       bs[k].product_code = c
                       /\ \A j \in (k + 1)..Len(bs) : bs[j].product_code # c
        kept == SelectSeq([k \in DOMAIN bs |-> k],
                          LAMBDA k : /\ bs[k].product_code # ""
                                     /\ \A j \in 1..(k - 1) :
                                           bs[j].product_code # bs[k].product_code)
    IN [i \in DOMAIN kept |->
          [product_code |-> bs[kept[i]].product_code,
           title |-> bs[last(bs[kept[i]].product_code)].title]]

\* list(books_data.values()): the dict receives a record for a book whose
\* product_code is not empty and not yet a key, and keeps insertion order
books_data(bs) ==
    LET kept == SelectSeq([k \in DOMAIN bs |-> k],
                          LAMBDA k : /\ bs[k].product_code # ""
                                     /\ \A j \in 1..(k - 1) :
                                           bs[j].product_code # bs[k].product_code)
    IN [i \in DOMAIN kept |->
          [product_code |-> bs[kept[i]].product_code, title |-> bs[kept[i]].title]]

\* bestsellers_data: a record for every book whose product_code is not empty
bestsellers_data(bs) ==
    LET kept == SelectSeq(bs, LAMBDA b : b.product_code # "")
    IN [i \in DOMAIN kept |->
          [bestseller_month |-> kept[i].bestseller_month, rank |-> kept[i].rank,
           product_code |-> kept[i].product_code]]

----------------------------------------------------------------------------
(* bestseller-crawler/kyobo_bestseller_crawler.py: get_bestseller_list *)

\* if len(books) >= 20: break
top_n == 20

----------------------------------------------------------------------------
(* kyobo_review_crawler: fetch_book_reviews *)

\* variant: the reviews of a page are put before those collected so far
extend_in_front(list, more) == more \o list

\* all_reviews.extend(reviews)
extend(list, more) == list \o more

----------------------------------------------------------------------------
(* kyobo_review_crawler: save_reviews_to_supabase *)

\* batch_size = 100
batch_size == 100

\* variant: the slice ends one element early
BatchShort(list, i) ==
    SubSeq(list, i + 1,
           IF i + batch_size - 1 < Len(list) THEN i + batch_size - 1 ELSE Len(list))

\* reviews[i:i + batch_size]
Batch(list, i) ==
    SubSeq(list, i + 1, IF i + batch_size < Len(list) THEN i + batch_size ELSE Len(list))

----------------------------------------------------------------------------
(* Inputs *)

\* the date (weekly: a day number, alternately the Wednesday that opens and
\* the Tuesday that closes week p) or the month of the j-th row of period p
TimeOf(sc, p, j) ==
    IF sc = "weekly" THEN 7 * (p - 1) + (IF j % 2 = 1 THEN 0 ELSE 6) ELSE p

\* the table with n[<<p, l>>] rows of period p and label l, for p in 1..np
\* and l in the sequence ls
RECURSIVE RowsFrom(_, _, _, _, _)
RowsFrom(sc, n, np, ls, k) ==
    IF k > np * Len(ls) THEN <<>>
    ELSE LET p == ((k - 1) \div Len(ls)) + 1
             l == ls[((k - 1) % Len(ls)) + 1]
         IN [j \in 1..n[<<p, l>>] |-> <<TimeOf(sc, p, j), l>>]
            \o RowsFrom(sc, n, np, ls, k + 1)

InputTable(sc, n, np, ls) == RowsFrom(sc, n, np, ls, 1)

\* no preceding run
NoRun == [run |-> 0, df |-> <<>>, count_df |-> EmptyFrame,
          viral_index |-> EmptyFrame, table |-> <<>>]

\* the three tables of the crawler, with their numbers of rows
Tables == {"reviews", "bestsellers", "books"}
NoStore == [t \in Tables |-> 0]

\* the state of an index script before its first statement
ViralStart(sc, d, nw, en) ==
    /\ script = sc
    /\ pc = "start"
    /\ df = d
    /\ rows = <<>>
    /\ count_df = EmptyFrame
    /\ growth = EmptyFrame
    /\ ma_deviation = EmptyFrame
    /\ z_scores = EmptyFrame
    /\ viral_index = EmptyFrame
    /\ top3 = <<>>
    /\ news = nw
    /\ surge_data = [c \in {} |-> <<>>]
    /\ share_data = [c \in {} |-> <<>>]
    /\ viral_data = [c \in {} |-> <<>>]
    /\ cursor = 1
    /\ enabled = en
    /\ requests = <<>>
    /\ result_df = <<>>
    /\ saved = FALSE
    /\ first = NoRun
    /\ sorted_as = {}

\* the crawler scripts do not run
CrawlerIdle ==
    /\ keywords_str = NoText
    /\ categories = <<>>
    /\ store = NoStore
    /\ initial = NoStore
    /\ log = <<>>
    /\ ret = "none"

\* the functions that list, fetch and save do not run
ScraperIdle ==
    /\ books = <<>>
    /\ all_links = <<>>
    /\ seen_urls = {}
    /\ pages = <<>>
    /\ all_reviews = <<>>
    /\ reviews = <<>>
    /\ sent = <<>>
    /\ db = <<>>
    /\ counts = <<>>

\* the state of a script before its first statement, the store configured
Start(sc, d, nw) == ViralStart(sc, d, nw, TRUE) /\ CrawlerIdle /\ ScraperIdle

\* the rows of a second category: none, one in every period, or one in
\* every odd period
Fillers == {[p \in 1..NumPeriods |-> 0],
            [p \in 1..NumPeriods |-> 1],
            [p \in 1..NumPeriods |-> p % 2]}

\* one category with 0, 1, 2 or MaxCount rows per period, beside a second
\* one, over NumPeriods periods
Init ==
    \E sc \in {"weekly", "monthly"} :
    \E a \in [1..NumPeriods -> {0, 1, 2, MaxCount}], b \in Fillers :
        Start(sc,
              InputTable(sc, [k \in (1..NumPeriods) \X {"c1", "c2"} |->
                                 IF k[2] = "c1" THEN a[k[1]] ELSE b[k[1]]],
                         NumPeriods, <<"c1", "c2">>),
              <<>>)

\* two categories and unclassified rows, at most one row per cell
InitMatrix ==
    \E sc \in {"weekly", "monthly"} :
    \E n \in [(1..MatPeriods) \X {"c1", "c2", Unclassified} -> 0..1] :
        Start(sc, InputTable(sc, n, MatPeriods, <<"c1", "c2", Unclassified>>), <<>>)

\* four categories, at most one row per cell
InitRank ==
    \E sc \in {"weekly", "monthly"} :
    \E n \in [(1..RankPeriods) \X {"c1", "c2", "c3", "c4"} -> 0..1] :
        Start(sc, InputTable(sc, n, RankPeriods, <<"c1", "c2", "c3", "c4">>), <<>>)

\* a single category over LongPeriods periods: one row in every period and
\* MaxCount rows in up to two of them
InitLong ==
    \E sc \in {"weekly", "monthly"} :
    \E p1, p2 \in 0..LongPeriods :
        Start(sc,
              InputTable(sc, [k \in (1..LongPeriods) \X {"c1"} |->
                                 IF k[1] \in {p1, p2} THEN MaxCount ELSE 1],
                         LongPeriods, <<"c1">>),
              <<>>)

\* two categories, at most one row per cell, for a script that is run twice
InitTwice ==
    \E sc \in {"weekly", "monthly"} :
    \E n \in [(1..TwicePeriods) \X {"c1", "c2"} -> 0..1] :
        Start(sc, InputTable(sc, n, TwicePeriods, <<"c1", "c2">>), <<>>)

\* a single category with 0, 10 or 40 rows per period
ExampleCounts == {0, 10, 40}
InitExample ==
    \E sc \in {"weekly", "monthly"} :
    \E a \in [1..ExamplePeriods -> ExampleCounts] :
        Start(sc,
              InputTable(sc, [k \in (1..ExamplePeriods) \X {"c1"} |-> a[k[1]]],
                         ExamplePeriods, <<"c1">>),
              <<>>)

\* a source table of 0..MaxTable rows of one category, one row per day
InitFetch ==
    \E n \in 0..MaxTable :
        Start("weekly", [i \in 1..n |-> <<i - 1, "c1">>], <<>>)

\* a source table of up to DirtyRows rows, among them rows whose date cannot
\* be parsed and rows without category; the store configured or not
RowPool == {<<0, "c1">>, <<7, "c1">>, <<7, "c2">>, <<BadDate, "c1">>,
            <<0, NoCategory>>}
InitDirty ==
    \E en \in BOOLEAN : \E n \in 0..DirtyRows : \E d \in [1..n -> RowPool] :
        ViralStart("weekly", d, <<>>, en) /\ CrawlerIdle /\ ScraperIdle

\* two rows of one category: the Wednesday of week w1 and the Tuesday of
\* week w2, any two weeks up to MaxWeek
InitCalendar ==
    \E w1, w2 \in 0..MaxWeek :
        /\ w1 <= w2
        /\ Start("weekly", <<<<7 * w1, "c1">>, <<7 * w2 + 6, "c1">>>>, <<>>)

\* the tokens a keywords string is joined from: with blanks, capitals, an
\* empty token, a token matching two categories, a token matching none
TokenPool == {<<"a", "i">>, <<" ", "A", "I">>, <<"c", "e">>, <<"g", "d", "p", " ">>,
              <<"e", "t", "f">>, <<"x">>, <<>>}

\* ','.join(ts)
RECURSIVE Join(_)
Join(ts) ==
    IF ts = <<>> THEN <<>>
    ELSE IF Len(ts) = 1 THEN ts[1]
    ELSE ts[1] \o <<",">> \o Join(Tail(ts))

\* categorize_book is called with None or with a string of up to MaxTokens
\* tokens
InitCategorize ==
    /\ ViralStart("categorize", <<>>, <<>>, TRUE)
    /\ \/ keywords_str = NoText
       \/ \E n \in 0..MaxTokens : \E ts \in [1..n -> TokenPool] :
             keywords_str = Join(ts)
    /\ categories = <<>>
    /\ store = NoStore /\ initial = NoStore /\ log = <<>> /\ ret = "none"
    /\ ScraperIdle

\* clear_supabase_data is called with up to MaxRows rows in each table, the
\* store configured or not
InitClear ==
    /\ \E en \in BOOLEAN : ViralStart("clear", <<>>, <<>>, en)
    /\ keywords_str = NoText /\ categories = <<>>
    /\ store \in [Tables -> 0..MaxRows]
    /\ initial = store
    /\ log = <<>> /\ ret = "none"
    /\ ScraperIdle

\* save_to_supabase is called with up to MaxBooks books: two product codes
\* and the empty one, two titles, the months 1, 2, ... in turn, the store
\* configured or not
InitSave ==
    /\ \E en \in BOOLEAN : ViralStart("save", <<>>, <<>>, en)
    /\ CrawlerIdle
    /\ \E n \in 0..MaxBooks :
       \E cs \in [1..n -> {"", "p1", "p2"}], ts \in [1..n -> {"t1", "t2"}] :
          books = [k \in 1..n |->
                     [product_code |-> cs[k], title |-> ts[k],
                      bestseller_month |-> k, rank |-> 1]]
    /\ all_links = <<>> /\ seen_urls = {} /\ pages = <<>> /\ all_reviews = <<>>
    /\ reviews = <<>> /\ sent = <<>> /\ db = <<>> /\ counts = <<>>

\* A URL is the record of its host ("" for a relative URL) and its path (a
\* product number, 0 for no path); a title is the sequence of its characters,
\* the four characters of 새창보기 being written s, c, b, g.

\* the bestseller page: n links to the products 1..n with a proper title,
\* alone or with one more link at position p: a repeat of the link to product
\* 1, the same product under its absolute URL, a title of two characters, an
\* excluded title, a link without href, a link whose href or whose text
\* cannot be read
InitLinks ==
    /\ ViralStart("list", <<>>, <<>>, TRUE)
    /\ CrawlerIdle
    /\ \E n \in 0..MaxLinks :
         LET plain == [k \in 1..n |->
                         [href |-> [host |-> "", path |-> k],
                          title |-> <<"B", "o", "o", "k">>, raises |-> "none"]]
             extra == {[href |-> [host |-> "", path |-> 1],
                        title |-> <<"B", "o", "o", "k">>, raises |-> "none"],
                       [href |-> [host |-> "https://product.kyobobook.co.kr", path |-> 1],
                        title |-> <<"B", "o", "o", "k">>, raises |-> "none"],
                       [href |-> [host |-> "", path |-> n + 1],
                        title |-> <<"a", "b">>, raises |-> "none"],
                       [href |-> [host |-> "", path |-> n + 1],
                        title |-> <<"s", "c", "b", "g">>, raises |-> "none"],
                       [href |-> [host |-> "", path |-> 0],
                        title |-> <<"B", "o", "o", "k">>, raises |-> "none"],
                       [href |-> [host |-> "", path |-> n + 1],
                        title |-> <<"B", "o", "o", "k">>, raises |-> "href"],
                       [href |-> [host |-> "", path |-> n + 1],
                        title |-> <<"B", "o", "o", "k">>, raises |-> "text"]}
         IN \/ all_links = plain
            \/ \E p \in 1..(n + 1), x \in extra :
                  all_links = SubSeq(plain, 1, p - 1) \o <<x>> \o SubSeq(plain, p, n)
    /\ books = <<>> /\ seen_urls = {} /\ pages = <<>> /\ all_reviews = <<>>
    /\ reviews = <<>> /\ sent = <<>> /\ db = <<>> /\ counts = <<>>

\* fetch_book_reviews(product_code, max_pages) with max_pages up to MaxPages;
\* the API answers page p with a request error, with a body that has no
\* reviewList, or with a reviewList of 0, 1 or 2 reviews
InitReviews ==
    /\ ViralStart("reviews", <<>>, <<>>, TRUE)
    /\ CrawlerIdle
    /\ \E max_pages \in 1..MaxPages :
       \E status \in [1..max_pages -> {"ok", "error", "nolist"}],
          size \in [1..max_pages -> 0..2] :
          /\ counts = [max_pages |-> max_pages]
          /\ pages = [p \in 1..max_pages |->
                        IF status[p] # "ok"
                        THEN [status |-> status[p], reviewList |-> <<>>]
                        ELSE [status |-> "ok",
                              reviewList |-> [i \in 1..size[p] |->
                                                [page |-> p, revw |-> i,
                                                 product_code |-> ""]]]]
    /\ books = <<>> /\ all_links = <<>> /\ seen_urls = {} /\ all_reviews = <<>>
    /\ reviews = <<>> /\ sent = <<>> /\ db = <<>>

\* save_reviews_to_supabase is called with 0..MaxReviews reviews, pairwise
\* distinct, the store configured or not
InitSaveReviews ==
    /\ \E en \in BOOLEAN : ViralStart("save_reviews", <<>>, <<>>, en)
    /\ CrawlerIdle
    /\ \E n \in 0..MaxReviews : reviews = [i \in 1..n |-> [revw |-> i]]
    /\ books = <<>> /\ all_links = <<>> /\ seen_urls = {} /\ pages = <<>>
    /\ all_reviews = <<>> /\ sent = <<>> /\ db = <<>> /\ counts = <<>>

\* the books table when a categorisation script starts: up to MaxShelf rows
\* with the product codes 1, 2, ...; a row has no title and no keywords, or
\* keywords and a title that match no, one, two or three categories, and is
\* not yet categorised or already is
InitBooksTable ==
    /\ \E sc \in {"categorize_books", "categorize_by_title"} :
          ViralStart(sc, <<>>, <<>>, TRUE)
    /\ keywords_str = NoText /\ categories = <<>> /\ store = NoStore
    /\ log = <<>> /\ ret = "none"
    /\ \E n \in 0..MaxShelf :
       \E r \in [1..n ->
                 {[title |-> NoText, keywords |-> NoText, category_1 |-> "null"],
                  [title |-> <<"e", "t", "f">>, keywords |-> <<"x">>,
                   category_1 |-> "null"],
                  [title |-> <<"x">>, keywords |-> <<"e", "t", "f">>,
                   category_1 |-> "stock"],
                  [title |-> <<"A", "I", " ", "c", "e", "o">>,
                   keywords |-> <<"c", "e">>, category_1 |-> "null"],
                  [title |-> <<"x">>, keywords |-> <<>>, category_1 |-> "null"],
                  [title |-> <<"x">>, keywords |-> <<"x">>, category_1 |-> "macro"],
                  [title |-> <<"e", "t", "f", " ", "g", "d", "p", " ", "A", "I">>,
                   keywords |-> <<"c", "e", ",", " ", "g", "d", "p">>,
                   category_1 |-> "tech"]}] :
          db = [k \in 1..n |->
                  [product_code |-> k, title |-> r[k].title,
                   keywords |-> r[k].keywords, category_1 |-> r[k].category_1,
                   category_2 |-> "null", category_3 |-> "null"]]
    /\ initial = db
    /\ books = <<>> /\ all_links = <<>> /\ seen_urls = {} /\ pages = <<>>
    /\ all_reviews = <<>> /\ reviews = <<>> /\ sent = <<>> /\ counts = <<>>

\* article counts and shares (hundredths of a percent) of a category over the
\* four months of calc_indicators
ValsPool == {<<1, 1, 1, 1>>, <<0, 2, 1, 3>>, <<2, 5, 0, 0>>}
SharesPool == {<<1000, 1000, 1000, 1000>>, <<500, 1200, 1100, 400>>}

\* df_news: up to MaxCats categories; the script never compares labels, so
\* the k categories are the first k labels
InitInd ==
    \E k \in 0..MaxCats :
    \E vs \in [1..k -> ValsPool], ss \in [1..k -> SharesPool] :
        Start("indicators", <<>>,
              [i \in 1..k |-> [cat |-> LabelOrder[i], vals |-> vs[i], shares |-> ss[i]]])

----------------------------------------------------------------------------
(* Actions of calculate_weekly_viral_index.py *)

\* main: news_df = fetch_news_data_from_db(); if news_df is None: return.
\* The function returns None when the store is not configured, when no row
\* is loaded and when an exception is raised (a date that cannot be parsed)
WeeklyFetch ==
    /\ script = "weekly" /\ pc = "start"
    /\ IF ~enabled
       THEN pc' = "nodata" /\ UNCHANGED <<rows, requests>>
       ELSE LET got == FetchPages(df, 0, <<>>, <<>>)
            IN /\ requests' = got.requests
               /\ IF got.all_data = <<>> \/ HasBadDate(got.all_data)
                  THEN pc' = "nodata" /\ rows' = rows
                  ELSE pc' = "loaded" /\ rows' = got.all_data
    /\ UNCHANGED <<script, df, count_df, growth, ma_deviation, z_scores,
                   viral_index, top3, news, surge_data, share_data, viral_data,
                   cursor, enabled, result_df, saved, first, sorted_as, crawler, scraper>>

\* fetch_news_data_from_db up to the while loop: if not SUPABASE_ENABLED:
\* return None; all_data = []; offset = 0
FetchEnter ==
    /\ script = "weekly" /\ pc = "start"
    /\ IF ~enabled
       THEN pc' = "nodata" /\ UNCHANGED <<rows, requests, cursor>>
       ELSE pc' = "paging" /\ rows' = <<>> /\ requests' = <<>> /\ cursor' = 0
    /\ UNCHANGED <<script, df, count_df, growth, ma_deviation, z_scores,
                   viral_index, top3, news, surge_data, share_data, viral_data,
                   enabled, result_df, saved, first, sorted_as, crawler, scraper>>

\* one iteration of the while loop; cursor is offset, rows is all_data
FetchPage ==
    /\ script = "weekly" /\ pc = "paging"
    /\ LET data == RangeOf(df, cursor, cursor + page_size - 1)
       IN /\ requests' = Append(requests, <<cursor, cursor + page_size - 1>>)
          /\ IF data = <<>>
             THEN pc' = "fetched" /\ UNCHANGED <<rows, cursor>>
             ELSE /\ rows' = rows \o data
                  /\ cursor' = NextOffset(cursor)
                  /\ pc' = IF LastPage(data) THEN "fetched" ELSE pc
    /\ UNCHANGED <<script, df, count_df, growth, ma_deviation, z_scores,
                   viral_index, top3, news, surge_data, share_data, viral_data,
                   enabled, result_df, saved, first, sorted_as, crawler, scraper>>

\* fetch_news_data_from_db after the while loop: None for an empty frame and
\* when pd.to_datetime raises
FetchReturn ==
    /\ script = "weekly" /\ pc = "fetched"
    /\ IF rows = <<>> \/ HasBadDate(rows)
       THEN pc' = "nodata" /\ rows' = <<>>
       ELSE pc' = "loaded" /\ rows' = rows
    /\ cursor' = 1
    /\ UNCHANGED <<script, df, count_df, growth, ma_deviation, z_scores,
                   viral_index, top3, news, surge_data, share_data, viral_data,
                   enabled, requests, result_df, saved, first, sorted_as,
                   crawler, scraper>>

\* weekly_counts = ...
WeeklyBuild ==
    /\ script = "weekly" /\ pc = "loaded"
    /\ count_df' = WeeklyCounts(Grouped(rows))
    /\ pc' = "counted"
    /\ UNCHANGED <<script, df, rows, growth, ma_deviation, z_scores,
                   viral_index, top3, news, surge_data, share_data, viral_data,
                   cursor, enabled, requests, result_df, saved, first, sorted_as, crawler, scraper>>

\* wow_growth, ma_deviation, z_scores
WeeklySignals ==
    /\ script = "weekly" /\ pc = "counted"
    /\ growth' = Frame(count_df.index, count_df.columns,
                       [k \in DOMAIN count_df.val |->
                           WowGrowth(Column(count_df, k[2]), Pos(count_df, k[1]))])
    /\ ma_deviation' = Frame(count_df.index, count_df.columns,
                       [k \in DOMAIN count_df.val |->
                           WeeklyMaDeviation(Column(count_df, k[2]), Pos(count_df, k[1]))])
    /\ z_scores' = Frame(count_df.index, count_df.columns,
                       [k \in DOMAIN count_df.val |->
                           WeeklyZScore(Column(count_df, k[2]), Pos(count_df, k[1]))])
    /\ pc' = "signals"
    /\ UNCHANGED <<script, df, rows, count_df, viral_index, top3, news,
                   surge_data, share_data, viral_data, cursor,
                   enabled, requests, result_df, saved, first, sorted_as, crawler, scraper>>

\* viral_index = ...; return weekly_counts, viral_index
WeeklyCompose ==
    /\ script = "weekly" /\ pc = "signals"
    /\ viral_index' = Frame(count_df.index, count_df.columns,
                       [k \in DOMAIN count_df.val |->
                           WeeklyViral(growth.val[k], ma_deviation.val[k], z_scores.val[k])])
    /\ pc' = "indexed"
    /\ UNCHANGED <<script, df, rows, count_df, growth, ma_deviation, z_scores,
                   top3, news, surge_data, share_data, viral_data, cursor,
                   enabled, requests, result_df, saved, first, sorted_as, crawler, scraper>>

\* main, after the index: result_df is built and written to the CSV file.
\* On a matrix without rows the .dt accessor and the summary of the dates
\* work on an empty table, which either passes or raises
WeeklyOutput ==
    /\ script = "weekly" /\ pc = "indexed"
    /\ \/ /\ result_df' = ResultRows(count_df, viral_index)
          /\ saved' = TRUE
          /\ pc' = "done"
       \/ /\ count_df.index = <<>>
          /\ pc' = "error"
          /\ UNCHANGED <<result_df, saved>>
    /\ UNCHANGED <<script, df, rows, count_df, growth, ma_deviation, z_scores,
                   viral_index, top3, news, surge_data, share_data, viral_data,
                   cursor, enabled, requests, first, sorted_as, crawler, scraper>>

----------------------------------------------------------------------------
(* Actions of 월별 바이럴 지수/calculate_viral_index.py *)

\* df = pd.read_excel(...); df_classified = ...; the progress line divides by
\* len(df): an empty table raises ZeroDivisionError, which main reports
MonthlyLoad ==
    /\ script = "monthly" /\ pc = "start"
    /\ IF df = <<>>
       THEN pc' = "error" /\ rows' = rows
       ELSE pc' = "loaded" /\ rows' = Classified(df)
    /\ UNCHANGED <<script, df, count_df, growth, ma_deviation, z_scores,
                   viral_index, top3, news, surge_data, share_data, viral_data,
                   cursor,
                   enabled, requests, result_df, saved, first, sorted_as, crawler, scraper>>

\* months, categories, monthly_counts, count_df
MonthlyBuild ==
    /\ script = "monthly" /\ pc = "loaded"
    /\ count_df' = MonthlyCounts(rows)
    /\ pc' = "counted"
    /\ UNCHANGED <<script, df, rows, growth, ma_deviation, z_scores,
                   viral_index, top3, news, surge_data, share_data, viral_data,
                   cursor,
                   enabled, requests, result_df, saved, first, sorted_as, crawler, scraper>>

\* mom_growth, ma_deviation, z_scores
MonthlySignals ==
    /\ script = "monthly" /\ pc = "counted"
    /\ growth' = Frame(count_df.index, count_df.columns,
                       [k \in DOMAIN count_df.val |->
                           MomGrowth(Column(count_df, k[2]), Pos(count_df, k[1]))])
    /\ ma_deviation' = Frame(count_df.index, count_df.columns,
                       [k \in DOMAIN count_df.val |->
                           MonthlyMaDeviation(Column(count_df, k[2]), Pos(count_df, k[1]))])
    /\ z_scores' = Frame(count_df.index, count_df.columns,
                       [k \in DOMAIN count_df.val |->
                           MonthlyZScore(Column(count_df, k[2]), Pos(count_df, k[1]))])
    /\ pc' = "signals"
    /\ UNCHANGED <<script, df, rows, count_df, viral_index, top3, news,
                   surge_data, share_data, viral_data, cursor,
                   enabled, requests, result_df, saved, first, sorted_as, crawler, scraper>>

\* viral_index = ...
MonthlyCompose ==
    /\ script = "monthly" /\ pc = "signals"
    /\ viral_index' = Frame(count_df.index, count_df.columns,
                       [k \in DOMAIN count_df.val |->
                           MonthlyViral(growth.val[k], ma_deviation.val[k], z_scores.val[k])])
    /\ pc' = "composed"
    /\ cursor' = 1
    /\ UNCHANGED <<script, df, rows, count_df, growth, ma_deviation, z_scores,
                   top3, news, surge_data, share_data, viral_data,
                   enabled, requests, result_df, saved, first, sorted_as, crawler, scraper>>

\* the sequences over set S without repetition
Orders(S) ==
    {s \in [1..Cardinality(S) -> S] : \A i, j \in DOMAIN s : i # j => s[i] # s[j]}

\* one iteration of "for month in months": the top 3 of the month. The sort
\* is a function of the score vector: a vector met before (in this or in a
\* preceding run) comes out in the same order again
MonthlyRank ==
    /\ script = "monthly" /\ pc = "composed"
    /\ cursor <= Len(count_df.index)
    /\ LET S == Range(count_df.columns)
           score == [c \in S |-> viral_index.val[<<count_df.index[cursor], c>>]]
       IN \E s \in Orders(S) :
            /\ IsSortedDesc(s, S, score)
            /\ \A e \in sorted_as : e.score = score => e.order = s
            /\ sorted_as' = sorted_as \cup {[score |-> score, order |-> s]}
            /\ top3' = top3 \o MonthEntries(count_df, viral_index, cursor, s)
    /\ cursor' = cursor + 1
    /\ UNCHANGED <<script, pc, df, rows, count_df, growth, ma_deviation,
                   z_scores, viral_index, news, surge_data, share_data,
                   viral_data, enabled, requests, result_df, saved, first,
                   crawler, scraper>>

\* after the loop: the two CSV files are written, then the summary reads
\* viral_top3_df['카테고리'], a KeyError on a table without rows
MonthlySummary ==
    /\ script = "monthly" /\ pc = "composed"
    /\ cursor > Len(count_df.index)
    /\ saved' = TRUE
    /\ pc' = IF top3 = <<>> THEN "error" ELSE "done"
    /\ UNCHANGED <<script, df, rows, count_df, growth, ma_deviation, z_scores,
                   viral_index, top3, news, surge_data, share_data, viral_data,
                   cursor, enabled, requests, result_df, first, sorted_as, crawler, scraper>>

----------------------------------------------------------------------------
(* A second run of an index script on the same events *)

\* the rows of table d in the order o
Reordered(d, o) == [i \in DOMAIN d |-> d[o[i]]]

\* the script has run to its end and is started again: the source holds the
\* same events, in any order, and the new process starts from scratch
Rerun ==
    /\ script \in {"weekly", "monthly"} /\ pc = "done"
    /\ first.run = 0
    /\ first' = [run |-> 1, df |-> df, count_df |-> count_df,
                 viral_index |-> viral_index,
                 table |-> IF script = "weekly" THEN result_df ELSE top3]
    /\ \E o \in Orders(DOMAIN df) : df' = Reordered(df, o)
    /\ pc' = "start"
    /\ rows' = <<>>
    /\ count_df' = EmptyFrame
    /\ growth' = EmptyFrame
    /\ ma_deviation' = EmptyFrame
    /\ z_scores' = EmptyFrame
    /\ viral_index' = EmptyFrame
    /\ top3' = <<>>
    /\ cursor' = 1
    /\ requests' = <<>>
    /\ result_df' = <<>>
    /\ saved' = FALSE
    /\ UNCHANGED <<script, news, surge_data, share_data, viral_data, enabled,
                   sorted_as, crawler, scraper>>

----------------------------------------------------------------------------
(* Actions of analysis/correlation/calc_indicators.py *)

\* 1. surge index
IndSurge ==
    /\ script = "indicators" /\ pc = "start"
    /\ surge_data' = [c \in Range(Categories(news)) |-> Surge(NewsRow(news, c).vals)]
    /\ pc' = "surge"
    /\ UNCHANGED <<script, df, rows, count_df, growth, ma_deviation, z_scores,
                   viral_index, top3, news, share_data, viral_data, cursor,
                   enabled, requests, result_df, saved, first, sorted_as, crawler, scraper>>

\* 2. share shift
IndShare ==
    /\ script = "indicators" /\ pc = "surge"
    /\ share_data' = [c \in Range(Categories(news)) |-> Shift(NewsRow(news, c).shares)]
    /\ pc' = "share"
    /\ UNCHANGED <<script, df, rows, count_df, growth, ma_deviation, z_scores,
                   viral_index, top3, news, surge_data, viral_data, cursor,
                   enabled, requests, result_df, saved, first, sorted_as, crawler, scraper>>

\* 4. composite viral score
IndViral ==
    /\ script = "indicators" /\ pc = "share"
    /\ viral_data' = [c \in Range(Categories(news)) |->
                        [i \in 1..(NumMonths - 1) |->
                            ViralScore(surge_data[c][i], share_data[c][i])]]
    /\ pc' = "viral"
    /\ cursor' = 1
    /\ UNCHANGED <<script, df, rows, count_df, growth, ma_deviation, z_scores,
                   viral_index, top3, news, surge_data, share_data,
                   enabled, requests, result_df, saved, first, sorted_as, crawler, scraper>>

\* one iteration of the loop that prints the top 3 of a month: sorted_cats[0],
\* [1] and [2] are read, an IndexError with fewer than three categories
IndTop3 ==
    /\ script = "indicators" /\ pc = "viral"
    /\ cursor <= NumMonths - 1
    /\ LET sorted_cats == SortedCats(Categories(news), viral_data, cursor)
       IN IF Len(sorted_cats) < 3
          THEN /\ pc' = "error"
               /\ UNCHANGED <<top3, cursor>>
          ELSE /\ top3' = top3 \o [r \in 1..3 |->
                                     [month |-> cursor, rank |-> r,
                                      cat |-> sorted_cats[r],
                                      score |-> Num(viral_data[sorted_cats[r]][cursor])]]
               /\ cursor' = cursor + 1
               /\ pc' = IF cursor = NumMonths - 1 THEN "done" ELSE pc
    /\ UNCHANGED <<script, df, rows, count_df, growth, ma_deviation, z_scores,
                   viral_index, news, surge_data, share_data, viral_data,
                   enabled, requests, result_df, saved, first, sorted_as, crawler, scraper>>

----------------------------------------------------------------------------
(* Actions of bestseller-crawler/categorize_books.py *)

\* categories = categorize_book(keywords)
Categorize ==
    /\ script = "categorize" /\ pc = "start"
    /\ categories' = categorize_book(keywords_str)
    /\ pc' = "done"
    /\ UNCHANGED <<script, df, rows, count_df, growth, ma_deviation, z_scores,
                   viral_index, top3, news, surge_data, share_data, viral_data,
                   cursor, enabled, requests, result_df, saved, first,
                   sorted_as, keywords_str, store, initial, log, ret,
                   scraper>>

----------------------------------------------------------------------------
(* Actions of clear_supabase_data *)

\* if not SUPABASE_ENABLED: return False
ClearCheck ==
    /\ script = "clear" /\ pc = "start"
    /\ IF enabled
       THEN pc' = "try" /\ ret' = ret
       ELSE pc' = "returned" /\ ret' = "False"
    /\ UNCHANGED <<script, df, rows, count_df, growth, ma_deviation, z_scores,
                   viral_index, top3, news, surge_data, share_data, viral_data,
                   cursor, enabled, requests, result_df, saved, first,
                   sorted_as, keywords_str, categories, store, initial, log,
                   scraper>>

\* the next delete statement of the try block is executed and returns: the
\* table is emptied; after the last statement the function returns True
DeleteDone ==
    /\ script = "clear" /\ pc = "try"
    /\ LET t == DeleteOrder[Len(log) + 1]
       IN /\ store' = [store EXCEPT ![t] = 0]
          /\ log' = Append(log, [table |-> t, ok |-> TRUE])
    /\ IF Len(log) + 1 = Len(DeleteOrder)
       THEN pc' = "returned" /\ ret' = "True"
       ELSE pc' = pc /\ ret' = ret
    /\ UNCHANGED <<script, df, rows, count_df, growth, ma_deviation, z_scores,
                   viral_index, top3, news, surge_data, share_data, viral_data,
                   cursor, enabled, requests, result_df, saved, first,
                   sorted_as, keywords_str, categories, initial,
                   scraper>>

\* the next delete statement raises, whether or not the store has applied
\* it: except Exception: return False
DeleteRaises ==
    /\ script = "clear" /\ pc = "try"
    /\ LET t == DeleteOrder[Len(log) + 1]
       IN /\ \/ store' = store
             \/ store' = [store EXCEPT ![t] = 0]
          /\ log' = Append(log, [table |-> t, ok |-> FALSE])
    /\ pc' = "returned"
    /\ ret' = "False"
    /\ UNCHANGED <<script, df, rows, count_df, growth, ma_deviation, z_scores,
                   viral_index, top3, news, surge_data, share_data, viral_data,
                   cursor, enabled, requests, result_df, saved, first,
                   sorted_as, keywords_str, categories, initial,
                   scraper>>

----------------------------------------------------------------------------
(* Actions of save_to_supabase *)

\* save_to_supabase(books): False when the store is not configured; else the
\* upsert into books and the insert into bestsellers, each only for a
\* non-empty list; either statement may raise (except: return False)
SaveToSupabase ==
    /\ script = "save" /\ pc = "start"
    /\ pc' = "returned"
    /\ IF ~enabled
       THEN sent' = sent /\ ret' = "False"
       ELSE LET upsert == IF books_data(books) = <<>> THEN <<>>
                          ELSE <<[table |-> "books", op |-> "upsert",
                                  records |-> books_data(books)]>>
                insert == IF bestsellers_data(books) = <<>> THEN <<>>
                          ELSE <<[table |-> "bestsellers", op |-> "insert",
                                  records |-> bestsellers_data(books)]>>
            IN \/ sent' = upsert \o insert /\ ret' = "True"
               \/ upsert # <<>> /\ sent' = upsert /\ ret' = "False"
               \/ insert # <<>> /\ sent' = upsert \o insert /\ ret' = "False"
    /\ UNCHANGED <<script, df, rows, count_df, growth, ma_deviation, z_scores,
                   viral_index, top3, news, surge_data, share_data, viral_data,
                   cursor, enabled, requests, result_df, saved, first,
                   sorted_as, keywords_str, categories, store, initial, log,
                   books, all_links, seen_urls, pages, all_reviews, reviews,
                   db, counts>>

----------------------------------------------------------------------------
(* Actions of get_bestseller_list *)

\* one iteration of `for link in all_links` (cursor is the position of link),
\* or the return after the last link; an exception while the link is read is
\* caught and the loop goes on
ParseLink ==
    /\ script = "list" /\ pc = "start"
    /\ IF cursor > Len(all_links)
       THEN pc' = "returned" /\ UNCHANGED <<cursor, books, seen_urls>>
       ELSE LET link == all_links[cursor]
                url == link.href
                title == Strip(link.title)
                product_url ==
                    IF url.host = ""
                    THEN [host |-> "https://product.kyobobook.co.kr", path |-> url.path]
                    ELSE url
            IN /\ cursor' = cursor + 1
               /\ IF \/ link.raises # "none"
                     \/ url = [host |-> "", path |-> 0]
                     \/ url \in seen_urls
                     \/ ~(title # <<>> /\ Len(title) > 2
                          /\ ~In(<<"s", "c", "b", "g">>, title))
                  THEN pc' = pc /\ UNCHANGED <<books, seen_urls>>
                  ELSE /\ seen_urls' = seen_urls \cup {url}
                       /\ books' = Append(books, [rank |-> Len(books) + 1,
                                                  title |-> title,
                                                  product_url |-> product_url])
                       /\ pc' = IF Len(books) + 1 >= top_n THEN "returned" ELSE pc
    /\ UNCHANGED <<script, df, rows, count_df, growth, ma_deviation, z_scores,
                   viral_index, top3, news, surge_data, share_data, viral_data,
                   enabled, requests, result_df, saved, first, sorted_as,
                   crawler, all_links, pages, all_reviews, reviews, sent, db,
                   counts>>

----------------------------------------------------------------------------
(* Actions of fetch_book_reviews *)

\* one iteration of `for page in range(1, max_pages + 1)` (cursor is page),
\* or the return after the last page: the request is sent; a request error,
\* a body without reviewList and an empty reviewList break the loop; else
\* the reviews are tagged with the product_code and collected
FetchReviewPage ==
    /\ script = "reviews" /\ pc = "start"
    /\ IF cursor > counts.max_pages
       THEN pc' = "returned" /\ UNCHANGED <<cursor, sent, all_reviews>>
       ELSE /\ sent' = Append(sent, [page |-> cursor, pageLimit |-> 10])
            /\ IF pages[cursor].status # "ok" \/ pages[cursor].reviewList = <<>>
               THEN pc' = "returned" /\ UNCHANGED <<cursor, all_reviews>>
               ELSE /\ all_reviews' =
                          extend(all_reviews,
                                 [i \in DOMAIN pages[cursor].reviewList |->
                                    [pages[cursor].reviewList[i]
                                        EXCEPT !.product_code = "S1"]])
                    /\ cursor' = cursor + 1
                    /\ pc' = pc
    /\ UNCHANGED <<script, df, rows, count_df, growth, ma_deviation, z_scores,
                   viral_index, top3, news, surge_data, share_data, viral_data,
                   enabled, requests, result_df, saved, first, sorted_as,
                   crawler, books, all_links, seen_urls, pages, reviews, db,
                   counts>>

----------------------------------------------------------------------------
(* Actions of save_reviews_to_supabase *)

\* save_reviews_to_supabase(reviews), statement by statement: the test of
\* SUPABASE_ENABLED and of the list; one iteration of
\* `for i in range(0, len(reviews), batch_size)` (cursor is i) whose insert
\* returns, or raises (except: return False); return True after the loop
SaveReviews ==
    /\ script = "save_reviews"
    /\ \/ /\ pc = "start"
          /\ IF ~enabled \/ reviews = <<>>
             THEN pc' = "returned" /\ ret' = "False" /\ cursor' = cursor
             ELSE pc' = "try" /\ ret' = ret /\ cursor' = 0
          /\ sent' = sent
       \/ /\ pc = "try" /\ cursor < Len(reviews)
          /\ sent' = Append(sent, [table |-> "reviews", op |-> "insert",
                                   records |-> Batch(reviews, cursor), ok |-> TRUE])
          /\ cursor' = cursor + batch_size
          /\ pc' = pc /\ ret' = ret
       \/ /\ pc = "try" /\ cursor < Len(reviews)
          /\ sent' = Append(sent, [table |-> "reviews", op |-> "insert",
                                   records |-> Batch(reviews, cursor), ok |-> FALSE])
          /\ pc' = "returned" /\ ret' = "False" /\ cursor' = cursor
       \/ /\ pc = "try" /\ cursor >= Len(reviews)
          /\ pc' = "returned" /\ ret' = "True"
          /\ UNCHANGED <<sent, cursor>>
    /\ UNCHANGED <<script, df, rows, count_df, growth, ma_deviation, z_scores,
                   viral_index, top3, news, surge_data, share_data, viral_data,
                   enabled, requests, result_df, saved, first, sorted_as,
                   keywords_str, categories, store, initial, log,
                   books, all_links, seen_urls, pages, all_reviews, reviews,
                   db, counts>>

----------------------------------------------------------------------------
(* Actions of categorize_books.py: main *)

\* main, statement by statement: the select of all books; one iteration of
\* `for idx, book in enumerate(books, 1)` (cursor is idx) whose update
\* returns, or raises (not caught: the script ends with the traceback, the
\* store having applied the update or not); the summary after the loop
CategorizeBooks ==
    /\ script = "categorize_books"
    /\ \/ /\ pc = "start"
          /\ books' = [k \in DOMAIN db |->
                         [product_code |-> db[k].product_code,
                          title |-> db[k].title, keywords |-> db[k].keywords]]
          /\ counts' = [categorized_count |-> 0, no_category_count |-> 0]
          /\ cursor' = 1
          /\ pc' = "loop"
          /\ UNCHANGED <<sent, db, categories>>
       \/ /\ pc = "loop" /\ cursor <= Len(books)
          /\ LET book == books[cursor]
                 keywords == IF book.keywords = NoText THEN <<>> ELSE book.keywords
                 cats == categorize_book(keywords)
                 applied == [k \in DOMAIN db |->
                               IF db[k].product_code = book.product_code
                               THEN [db[k] EXCEPT
                                       !.category_1 = update_data(cats).category_1,
                                       !.category_2 = update_data(cats).category_2,
                                       !.category_3 = update_data(cats).category_3]
                               ELSE db[k]]
             IN /\ categories' = cats
                /\ \/ /\ sent' = Append(sent, [product_code |-> book.product_code,
                                               data |-> update_data(cats),
                                               ok |-> TRUE])
                      /\ db' = applied
                      /\ counts' = IF cats # <<>>
                                   THEN [counts EXCEPT !.categorized_count = @ + 1]
                                   ELSE [counts EXCEPT !.no_category_count = @ + 1]
                      /\ cursor' = cursor + 1
                      /\ pc' = pc
                   \/ /\ sent' = Append(sent, [product_code |-> book.product_code,
                                               data |-> update_data(cats),
                                               ok |-> FALSE])
                      /\ db' \in {db, applied}
                      /\ pc' = "error"
                      /\ UNCHANGED <<counts, cursor>>
          /\ books' = books
       \/ /\ pc = "loop" /\ cursor > Len(books)
          /\ pc' = "done"
          /\ UNCHANGED <<books, counts, cursor, sent, db, categories>>
    /\ UNCHANGED <<script, df, rows, count_df, growth, ma_deviation, z_scores,
                   viral_index, top3, news, surge_data, share_data, viral_data,
                   enabled, requests, result_df, saved, first, sorted_as,
                   keywords_str, store, initial, log, ret,
                   all_links, seen_urls, pages, all_reviews, reviews>>

----------------------------------------------------------------------------
(* Actions of categorize_by_title.py: main *)

\* main, statement by statement: the select of the books without category;
\* one iteration of `for book in books` (cursor is the position of book):
\* with categories the update, which returns, or raises (not caught), and
\* updated += 1, without categories still_empty += 1; the summary
CategorizeByTitle ==
    /\ script = "categorize_by_title"
    /\ \/ /\ pc = "start"
          /\ books' = [k \in DOMAIN is_null(db) |->
                         [product_code |-> is_null(db)[k].product_code,
                          title |-> is_null(db)[k].title]]
          /\ counts' = [updated |-> 0, still_empty |-> 0]
          /\ cursor' = 1
          /\ pc' = "loop"
          /\ UNCHANGED <<sent, db, categories>>
       \/ /\ pc = "loop" /\ cursor <= Len(books)
          /\ LET book == books[cursor]
                 title == IF book.title = NoText THEN <<>> ELSE book.title
                 cats == categorize_by_title(title)
                 applied == [k \in DOMAIN db |->
                               IF db[k].product_code = book.product_code
                               THEN [db[k] EXCEPT
                                       !.category_1 = update_data(cats).category_1,
                                       !.category_2 = update_data(cats).category_2,
                                       !.category_3 = update_data(cats).category_3]
                               ELSE db[k]]
             IN /\ categories' = cats
                /\ IF cats # <<>>
                   THEN \/ /\ sent' = Append(sent,
                                             [product_code |-> book.product_code,
                                              data |-> update_data(cats),
                                              ok |-> TRUE])
                           /\ db' = applied
                           /\ counts' = [counts EXCEPT !.updated = @ + 1]
                           /\ cursor' = cursor + 1
                           /\ pc' = pc
                        \/ /\ sent' = Append(sent,
                                             [product_code |-> book.product_code,
                                              data |-> update_data(cats),
                                              ok |-> FALSE])
                           /\ db' \in {db, applied}
                           /\ pc' = "error"
                           /\ UNCHANGED <<counts, cursor>>
                   ELSE /\ counts' = [counts EXCEPT !.still_empty = @ + 1]
                        /\ cursor' = cursor + 1
                        /\ pc' = pc
                        /\ UNCHANGED <<sent, db>>
          /\ books' = books
       \/ /\ pc = "loop" /\ cursor > Len(books)
          /\ pc' = "done"
          /\ UNCHANGED <<books, counts, cursor, sent, db, categories>>
    /\ UNCHANGED <<script, df, rows, count_df, growth, ma_deviation, z_scores,
                   viral_index, top3, news, surge_data, share_data, viral_data,
                   enabled, requests, result_df, saved, first, sorted_as,
                   keywords_str, store, initial, log, ret,
                   all_links, seen_urls, pages, all_reviews, reviews>>

----------------------------------------------------------------------------
(* Specifications *)

Next ==
    \/ WeeklyFetch
    \/ WeeklyBuild
    \/ WeeklySignals
    \/ WeeklyCompose
    \/ WeeklyOutput
    \/ MonthlyLoad
    \/ MonthlyBuild
    \/ MonthlySignals
    \/ MonthlyCompose
    \/ MonthlyRank
    \/ MonthlySummary

NextWeekly ==
    \/ WeeklyFetch
    \/ WeeklyBuild
    \/ WeeklySignals
    \/ WeeklyCompose
    \/ WeeklyOutput

NextTwice == Next \/ Rerun

NextClear ==
    \/ ClearCheck
    \/ DeleteDone
    \/ DeleteRaises

\* fetch_news_data_from_db, iteration by iteration
NextPaging ==
    \/ FetchEnter
    \/ FetchPage
    \/ FetchReturn

NextInd ==
    \/ IndSurge
    \/ IndShare
    \/ IndViral
    \/ IndTop3

Spec == Init /\ [][Next]_vars
SpecMatrix == InitMatrix /\ [][Next]_vars
SpecRank == InitRank /\ [][Next]_vars
SpecLong == InitLong /\ [][Next]_vars
SpecInd == InitInd /\ [][NextInd]_vars
SpecTwice == InitTwice /\ [][NextTwice]_vars
SpecExample == InitExample /\ [][Next]_vars
SpecFetch == InitFetch /\ [][WeeklyFetch]_vars
SpecDirty == InitDirty /\ [][NextWeekly]_vars
SpecCalendar == InitCalendar /\ [][NextWeekly]_vars
SpecCategorize == InitCategorize /\ [][Categorize]_vars
SpecClear == InitClear /\ [][NextClear]_vars
SpecSave == InitSave /\ [][SaveToSupabase]_vars
SpecList == InitLinks /\ [][ParseLink]_vars
SpecReviews == InitReviews /\ [][FetchReviewPage]_vars
SpecSaveReviews == InitSaveReviews /\ [][SaveReviews]_vars
SpecBooksTable == InitBooksTable /\ [][CategorizeBooks \/ CategorizeByTitle]_vars
\* every iteration of the loop that can run does run
SpecPaging == InitFetch /\ [][NextPaging]_vars /\ WF_vars(NextPaging)

----------------------------------------------------------------------------
(* Properties *)

Viral == script \in {"weekly", "monthly"}

\* the count matrix is built
HasCounts == Viral /\ pc \in {"counted", "signals", "indexed", "composed", "done"}

\* the three signal matrices are computed
HasSignals == Viral /\ pc \in {"signals", "indexed", "composed", "done"}

\* the composite matrix is computed
HasIndex ==
    \/ script = "weekly" /\ pc \in {"indexed", "done"}
    \/ script = "monthly" /\ pc \in {"composed", "done"}

Cells == Range(count_df.index) \X Range(count_df.columns)

\* the count of label c in the row at position i of the count matrix
CountAt(i, c) == count_df.val[<<count_df.index[i], c>>]

\* the weights of the growth, deviation and Z-score signals, in tenths
WeightGrowth == IF script = "weekly" THEN 4 ELSE 5
WeightDeviation == IF script = "weekly" THEN 4 ELSE 3
WeightZ == 2

\* the terms of the composite as the running script computes them
GrowthTerm(g) == IF script = "weekly" THEN WeeklyGrowthTerm(g) ELSE MonthlyGrowthTerm(g)
DeviationTerm(d) ==
    IF script = "weekly" THEN WeeklyDeviationTerm(d) ELSE MonthlyDeviationTerm(d)
ZTerm(z) == IF script = "weekly" THEN WeeklyZTerm(z) ELSE MonthlyZTerm(z)

\* C1: the growth signal of a bucket that is not the first is
\* (counts[t] - counts[t-1]) / (counts[t-1] + 1) * 100, and the growth of the
\* first bucket counts as 0, in the weekly and in the monthly computation
C1_GrowthPlusOne ==
    HasSignals =>
        \A c \in Range(count_df.columns) : \A i \in DOMAIN count_df.index :
            FillNa0(growth.val[<<count_df.index[i], c>>]) =
                IF i = 1 THEN Num(0)
                ELSE Num(RoundDiv((CountAt(i, c) - CountAt(i - 1, c)) * 100 * SCALE,
                                  CountAt(i - 1, c) + 1))

\* C2: every composite index value is a finite number, also when a previous
\* count or a moving average is 0, in the weekly and in the monthly computation
C2_CompositeFinite ==
    HasIndex => \A k \in Cells : IsNum(viral_index.val[k])

\* C3: the growth term and the deviation term of the composite (clipped and
\* weighted) never exceed 300 * weight in absolute value
C3_TermsBounded ==
    HasSignals =>
        \A k \in Cells :
            LET g == GrowthTerm(growth.val[k])
                d == DeviationTerm(ma_deviation.val[k])
            IN /\ IsNum(g) /\ Abs(g.v) <= 300 * SCALE * WeightGrowth
               /\ IsNum(d) /\ Abs(d.v) <= 300 * SCALE * WeightDeviation

\* the trailing window of W periods (4 weekly, 3 monthly) that ends at row i
TrailingRows(i) ==
    LET w == IF script = "weekly" THEN 4 ELSE 3
    IN {j \in DOMAIN count_df.index : j <= i /\ j > i - w}

RECURSIVE SumCounts(_, _)
SumCounts(J, c) ==
    IF J = {} THEN 0
    ELSE LET j == CHOOSE x \in J : TRUE
         IN CountAt(j, c) + SumCounts(J \ {j}, c)

\* C4: the deviation of bucket t is (counts[t] - ma[t]) / (ma[t] + 1) * 100
\* with ma[t] the mean of the last min(W, t+1) counts up to t; with the sum s
\* of these k counts this is (counts[t] * k - s) / (s + k) * 100
C4_DeviationPlusOne ==
    HasSignals =>
        \A c \in Range(count_df.columns) : \A i \in DOMAIN count_df.index :
            LET k == Cardinality(TrailingRows(i))
                s == SumCounts(TrailingRows(i), c)
            IN ma_deviation.val[<<count_df.index[i], c>>] =
                  Num(RoundDiv((CountAt(i, c) * k - s) * 100 * SCALE, s + k))

\* x clipped to lo..hi
ClipInt(x, lo, hi) == IF x < lo THEN lo ELSE IF x > hi THEN hi ELSE x

\* the composite with the Z-score contribution zc (in CSCALE units) beside
\* the growth and deviation terms of cell k
WithZContribution(k, zc) ==
    Plus(Plus(GrowthTerm(growth.val[k]), DeviationTerm(ma_deviation.val[k])), Num(zc))

C6_FirstBucketNeutral ==
    (HasIndex /\ count_df.index # <<>>) =>
        \A c \in Range(count_df.columns) :
            LET k == <<count_df.index[1], c>>
            IN /\ GrowthTerm(growth.val[k]) = Num(0)
               /\ DeviationTerm(ma_deviation.val[k]) = Num(0)
               /\ viral_index.val[k] = ZTerm(z_scores.val[k])

\* a composite over several buckets whose first bucket has a category with
\* count 0 and one with a positive count and a Z-score contribution
C6_Witness ==
    /\ HasIndex /\ Len(count_df.index) > 1
    /\ \E c \in Range(count_df.columns) : CountAt(1, c) = 0
    /\ \E c \in Range(count_df.columns) :
          /\ CountAt(1, c) > 0
          /\ ZTerm(z_scores.val[<<count_df.index[1], c>>]) # Num(0)

\* the column of category c holds the same count in every bucket
ZeroVariance(c) == \A i, j \in DOMAIN count_df.index : CountAt(i, c) = CountAt(j, c)

\* C7: a zero-variance category (the same count in every bucket, or a single
\* bucket) has a Z-score contribution of exactly 0 in every bucket: no NaN
\* and no infinity reaches the composite through it
C7_ZeroVarianceNeutral ==
    HasIndex =>
        \A c \in Range(count_df.columns) :
            ZeroVariance(c) =>
                \A p \in Range(count_df.index) :
                    /\ ZTerm(z_scores.val[<<p, c>>]) = Num(0)
                    /\ viral_index.val[<<p, c>>] =
                          Plus(GrowthTerm(growth.val[<<p, c>>]),
                               DeviationTerm(ma_deviation.val[<<p, c>>]))

\* a composite over several buckets with a constant positive column beside a
\* column that varies
C7_Witness ==
    /\ HasIndex /\ Len(count_df.index) > 1
    /\ \E c \in Range(count_df.columns) : ZeroVariance(c) /\ CountAt(1, c) > 0
    /\ \E c \in Range(count_df.columns) : ~ZeroVariance(c)

\* the labels that occur in the input table
ObservedLabels == {df[i][2] : i \in DOMAIN df}

\* row time t belongs to the bucket p: the week from Wednesday to the Tuesday
\* p, or the month p
InBucket(t, p) ==
    IF script = "weekly" THEN p % 7 = 6 /\ p - 6 <= t /\ t <= p ELSE t = p

\* the number of input rows of bucket p and label l
Events(p, l) == Cardinality({i \in DOMAIN df : InBucket(df[i][1], p) /\ df[i][2] = l})

\* label l has a count for every bucket of the matrix: the number of its
\* events there, 0 when there is none
ZeroFilled(l) ==
    \A p \in Range(count_df.index) :
        /\ <<p, l>> \in DOMAIN count_df.val
        /\ count_df.val[<<p, l>>] = Events(p, l)

\* C8 as stated: every category observed anywhere in the input has a count
\* for every bucket of the matrix, the number of its events, 0 without any
C8_ZeroFillEveryLabel ==
    HasCounts => \A l \in ObservedLabels : ZeroFilled(l)

\* C8 (amended): every category observed in the input, except the label
\* '미분류' that the monthly computation drops before it aggregates, has a
\* count for every bucket of the matrix, the number of its events, 0 without
\* any
C8_ZeroFill ==
    HasCounts =>
        \A l \in ObservedLabels :
            ~(script = "monthly" /\ l = Unclassified) => ZeroFilled(l)

\* a monthly matrix built from classified and unclassified rows, with a cell
\* filled with 0
C8_Witness ==
    /\ HasCounts /\ script = "monthly"
    /\ Unclassified \in ObservedLabels
    /\ \E k \in Cells : count_df.val[k] = 0
    /\ \E k \in Cells : count_df.val[k] > 0

\* C9: the index of the count matrix is contiguous: every week (month)
\* between the earliest and the latest bucket is a row, so each row follows
\* the preceding calendar period
C9_ContiguousIndex ==
    HasCounts =>
        \A i \in 1..(Len(count_df.index) - 1) :
            count_df.index[i + 1] =
                count_df.index[i] + (IF script = "weekly" THEN 7 ELSE 1)

\* the entries of the ranked table for bucket m
EntriesOf(m) == SelectSeq(top3, LAMBDA e : e.month = m)

\* the buckets, the categories and the composite scores that are ranked
RankedBuckets ==
    IF script = "indicators" THEN 1..(NumMonths - 1) ELSE Range(count_df.index)
RankedCats ==
    IF script = "indicators" THEN Range(Categories(news)) ELSE Range(count_df.columns)
ScoreOf(m, c) ==
    IF script = "indicators" THEN Num(viral_data[c][m]) ELSE viral_index.val[<<m, c>>]

\* the ranking has run to its end (or the script has stopped)
RankingOver ==
    \/ script = "indicators" /\ pc \in {"done", "error"}
    \/ script = "monthly" /\ pc = "composed" /\ cursor > Len(count_df.index)
    \/ script = "monthly" /\ pc = "done"

\* the ranked table of bucket m holds min(3, number of categories) entries,
\* with ranks 1..n in order of non-increasing score, and no category outside
\* it scores more than one inside
TopOf(m) ==
    LET es == EntriesOf(m)
        n == IF Cardinality(RankedCats) < 3 THEN Cardinality(RankedCats) ELSE 3
    IN /\ Len(es) = n
       /\ \A r \in DOMAIN es : es[r].rank = r /\ es[r].cat \in RankedCats
       /\ \A r, q \in DOMAIN es : r < q => es[r].cat # es[q].cat
       /\ \A r, q \in DOMAIN es :
             r < q => ~Greater(ScoreOf(m, es[q].cat), ScoreOf(m, es[r].cat))
       /\ \A c \in RankedCats \ {es[r].cat : r \in DOMAIN es} :
             \A r \in DOMAIN es : ~Greater(ScoreOf(m, c), ScoreOf(m, es[r].cat))

\* C10: for each time bucket the ranked table holds exactly min(3, number of
\* categories) entries, ranked 1..n by non-increasing composite score, and
\* no category outside the table scores strictly more than one inside
C10_TopN ==
    RankingOver => \A m \in RankedBuckets : TopOf(m)

\* the position of category c in the enumeration of the categories: the
\* columns of the matrix, or the list categories of calc_indicators
CatPos(c) ==
    LET cs == IF script = "indicators" THEN Categories(news) ELSE count_df.columns
    IN CHOOSE k \in DOMAIN cs : cs[k] = c

\* in the ranked table of bucket m, of two categories of equal score the one
\* enumerated first has the better rank, and if only one of them is in the
\* table it is the one enumerated first
TieOrder(m) ==
    LET es == EntriesOf(m)
    IN /\ \A r, q \in DOMAIN es :
             r < q /\ ScoreOf(m, es[r].cat) = ScoreOf(m, es[q].cat)
                 => CatPos(es[r].cat) < CatPos(es[q].cat)
       /\ \A c \in RankedCats \ {es[r].cat : r \in DOMAIN es} :
             \A r \in DOMAIN es :
                 ScoreOf(m, c) = ScoreOf(m, es[r].cat) => CatPos(es[r].cat) < CatPos(c)

\* C11: when two categories have equal composite score in a bucket, the one
\* earlier in the category enumeration gets the better rank, also when the
\* tie decides which of them enters the top 3
C11_TieKeepsEnumerationOrder ==
    \A m \in RankedBuckets : TieOrder(m)

\* the count matrix, the composite matrix and the output table of the second
\* run equal those of the first
SameCounts == first.run = 1 /\ HasCounts => count_df = first.count_df
SameIndex == first.run = 1 /\ HasIndex => viral_index = first.viral_index
SameTable ==
    first.run = 1 /\ pc = "done" =>
        (IF script = "weekly" THEN result_df ELSE top3) = first.table

\* C12: a second run of the index computation on the same events, given in
\* any order, yields exactly the count matrix, the composite matrix and the
\* ranked (output) table of the first run
C12_SecondRunEqual ==
    /\ first.run = 1 => pc \notin {"nodata", "error"}
    /\ SameCounts
    /\ SameIndex
    /\ SameTable

\* a second monthly run has ended on rows given in another order than to the
\* first, with two categories of equal score in the ranked table
C12_Witness ==
    /\ script = "monthly" /\ pc = "done"
    /\ first.run = 1 /\ first.df # df
    /\ top3 # <<>>
    /\ \E i, j \in DOMAIN top3 :
          i < j /\ top3[i].month = top3[j].month /\ top3[i].score = top3[j].score

\* the monthly index of a single category with the counts 10, 10, 40
ExampleColumn ==
    /\ script = "monthly" /\ HasIndex
    /\ count_df.columns = <<"c1">>
    /\ Column(count_df, "c1") = <<10, 10, 40>>

\* a signal value rounded to tenths, a Z-score rounded to hundredths
Tenths(a) == RoundDiv(a.v, SCALE \div 10)
Hundredths(a) == RoundDiv(a.v * 100, SCALE)

\* C13: for the counts Jan = 10, Feb = 10, Mar = 40 of a single category the
\* monthly computation gives growth[Feb] = 0.0, growth[Mar] = 272.7,
\* deviation[Mar] = 95.2, a Z-score of 1.41 for Mar and composite[Mar] = 167.8
C13_WorkedExample ==
    ExampleColumn =>
        LET feb == <<count_df.index[2], "c1">>
            mar == <<count_df.index[3], "c1">>
        IN /\ growth.val[feb] = Num(0)
           /\ IsNum(growth.val[mar]) /\ Tenths(growth.val[mar]) = 2727
           /\ IsNum(ma_deviation.val[mar]) /\ Tenths(ma_deviation.val[mar]) = 952
           /\ IsNum(z_scores.val[mar]) /\ Hundredths(z_scores.val[mar]) = 141
           /\ Round1(viral_index.val[mar]) = Num(1678)

\* the ranges [0, 999], [1000, 1999], ... up to the first one that a table
\* of n rows does not fill
ExpectedRanges(n) ==
    [k \in 1..(n \div 1000 + 1) |-> <<1000 * (k - 1), 1000 * (k - 1) + 999>>]

\* C14: for a source table of n rows fetch_news_data_from_db requests the
\* ranges [0, 999], [1000, 1999], ... in order, stops after the first page
\* that is empty or shorter than 1000 rows, and has accumulated exactly the
\* n rows of the table, each once, in the order of the table
C14_PaginatedLoad ==
    script = "weekly" /\ pc # "start" /\ enabled /\ ~HasBadDate(df) =>
        /\ requests = ExpectedRanges(Len(df))
        /\ rows = df

\* a table of exactly two full pages is loaded with three requests
C14_Witness ==
    /\ script = "weekly" /\ pc = "loaded"
    /\ Len(df) = 2000
    /\ Len(requests) = 3
    /\ rows = df /\ df[1000] # df[1001]

\* C15: when the source yields no rows, or the store is not configured, the
\* run ends in the 'no data' outcome: no exception, no matrix, no index and
\* no output file
C15_NoDataOutcome ==
    Viral /\ pc # "start" /\ (df = <<>> \/ (script = "weekly" /\ ~enabled)) =>
        /\ pc = "nodata"
        /\ count_df = EmptyFrame /\ viral_index = EmptyFrame
        /\ result_df = <<>> /\ top3 = <<>>
        /\ ~saved

\* the rows with a date that can be parsed and with a category
WellFormed(d) == SelectSeq(d, LAMBDA r : r[1] # BadDate /\ r[2] # NoCategory)

\* C16: a row without category or with a timestamp that cannot be parsed is
\* left out of the aggregation without aborting the run: the well-formed
\* rows of the input are aggregated into the count matrix and the index is
\* produced
C16_MalformedExcluded ==
    script = "weekly" /\ enabled /\ pc # "start" /\ WellFormed(df) # <<>> =>
        /\ pc \notin {"nodata", "error"}
        /\ HasCounts => count_df = WeeklyCounts(WellFormed(df))

\* string comparison a < b of two digit strings
LexLess(a, b) ==
    \/ \E k \in DOMAIN a \cap DOMAIN b :
          a[k] < b[k] /\ \A j \in 1..(k - 1) : a[j] = b[j]
    \/ Len(a) < Len(b) /\ \A j \in DOMAIN a : a[j] = b[j]

\* row r of the weekly output: the start is 6 days before the end, the label
\* is 'start ~ end', and ymw is the year, the two-digit month and the week
\* digit (day - 1) // 7 + 1 of the end date, a digit in 1..5
LabelledRow(r) ==
    LET e == DateOf(r.end_date)
    IN /\ r.start_date = r.end_date - 6
       /\ r.bestseller_week = [from |-> Strftime(DateOf(r.start_date)),
                               sep |-> " ~ ",
                               to |-> Strftime(e)]
       /\ r.ymw = Digits(e.year, 4) \o Digits(e.month, 2)
                    \o <<(e.day - 1) \div 7 + 1>>
       /\ Len(r.ymw) = 7 /\ r.ymw[7] \in 1..5

\* C17: every row of the weekly output has start_date = end_date - 6 days and
\* the label 'start ~ end'; its key ymw = YYYY + MM + ((day-1)//7+1) of the
\* end date has a week digit in 1..5, differs between different weekly
\* buckets and orders the buckets as their end dates do
C17_PeriodLabels ==
    /\ \A i \in DOMAIN result_df : LabelledRow(result_df[i])
    /\ \A i, j \in DOMAIN result_df :
          /\ result_df[i].end_date # result_df[j].end_date
                => result_df[i].ymw # result_df[j].ymw
          /\ result_df[i].end_date < result_df[j].end_date
                => LexLess(result_df[i].ymw, result_df[j].ymw)

\* the output holds two weeks of the same month, the later one the fifth
\* Tuesday of the month
C17_Witness ==
    /\ script = "weekly" /\ pc = "done"
    /\ \E i, j \in DOMAIN result_df :
          /\ result_df[i].end_date < result_df[j].end_date
          /\ SubSeq(result_df[i].ymw, 1, 6) = SubSeq(result_df[j].ymw, 1, 6)
          /\ result_df[j].ymw[7] = 5

\* entry e of the monthly ranked table shows the raw count of its category
\* and the change of that count against the preceding month of the series
DisplayedChange(e) ==
    LET i == Pos(count_df, e.month)
        prev == CountAt(i - 1, e.cat)
        pct == RoundDiv((e.count - prev) * 1000, prev)
    IN /\ e.count = CountAt(i, e.cat)
       /\ (e.mom.t = "n/a") <=> (i = 1)
       /\ i > 1 /\ prev = 0 => e.mom = [t |-> "pct", sign |-> "+", v |-> 0]
       /\ i > 1 /\ prev > 0 =>
             /\ e.mom.t = "pct"
             /\ e.mom.sign = (IF e.count < prev THEN "-" ELSE "+")
             /\ e.mom.v = Abs(pct)

\* C18: the change displayed in the ranked table is the signed percentage
\* change of the raw count, (count - prev) / prev * 100 to one decimal; it is
\* 'N/A' exactly for the first month of the series and 0 when the count of
\* the preceding month is 0
C18_DisplayedChange ==
    script = "monthly" => \A k \in DOMAIN top3 : DisplayedChange(top3[k])

\* a ranked table with an entry of the first month, an entry after a month
\* without articles, a falling and a rising count
C18_Witness ==
    /\ script = "monthly" /\ pc = "done"
    /\ \E k \in DOMAIN top3 : top3[k].mom.t = "n/a"
    /\ \E k \in DOMAIN top3 :
          /\ Pos(count_df, top3[k].month) > 1
          /\ CountAt(Pos(count_df, top3[k].month) - 1, top3[k].cat) = 0
          /\ top3[k].count > 0
    /\ \E k \in DOMAIN top3 : top3[k].mom.t = "pct" /\ top3[k].mom.sign = "-"
    /\ \E k \in DOMAIN top3 :
          top3[k].mom.t = "pct" /\ top3[k].mom.sign = "+" /\ top3[k].mom.v > 0

\* the tokens of the argument: the comma-separated parts, stripped, in lower
\* case
Tokens == [k \in DOMAIN Split(keywords_str) |-> Lower(Strip(Split(keywords_str)[k]))]

\* the keywords of category c, the tokens that match it, its match count
KeywordsOf(c) ==
    CATEGORY_KEYWORDS[CHOOSE k \in DOMAIN CATEGORY_KEYWORDS :
                          CATEGORY_KEYWORDS[k].category = c].keywords
MatchingTokens(c) ==
    {k \in DOMAIN Tokens :
        \E j \in DOMAIN KeywordsOf(c) : PartialMatch(Tokens[k], KeywordsOf(c)[j])}
MatchCount(c) == Cardinality(MatchingTokens(c))

\* category c is matched for the first time before category d: by an
\* earlier token, or by the same token and c comes first in the table
DictPos(c) ==
    CHOOSE k \in DOMAIN CATEGORY_KEYWORDS : CATEGORY_KEYWORDS[k].category = c
FirstToken(c) == CHOOSE k \in MatchingTokens(c) : \A j \in MatchingTokens(c) : k <= j
MatchedBefore(c, d) ==
    \/ FirstToken(c) < FirstToken(d)
    \/ FirstToken(c) = FirstToken(d) /\ DictPos(c) < DictPos(d)

\* C19: categorize_book returns at most 3 pairwise distinct categories in
\* order of non-increasing match count, the match count of a category being
\* the number of comma-separated tokens that match it; categories of equal
\* count keep the order in which they were first matched; an empty or
\* missing keywords string yields the empty list
C19_Classification ==
    script = "categorize" /\ pc = "done" =>
        IF keywords_str = NoText \/ keywords_str = <<>>
        THEN categories = <<>>
        ELSE /\ Len(categories) <= 3
             /\ \A i, j \in DOMAIN categories :
                   i < j =>
                     /\ categories[i] # categories[j]
                     /\ MatchCount(categories[i]) >= MatchCount(categories[j])
                     /\ MatchCount(categories[i]) = MatchCount(categories[j])
                           => MatchedBefore(categories[i], categories[j])
             /\ \A i \in DOMAIN categories : MatchCount(categories[i]) >= 1

\* three categories are returned, the first matched by more tokens than the
\* second, the second and the third by equally many
C19_Witness ==
    /\ script = "categorize" /\ pc = "done"
    /\ Len(categories) = 3
    /\ MatchCount(categories[1]) > MatchCount(categories[2])
    /\ MatchCount(categories[2]) = MatchCount(categories[3])

\* the delete statement on table t has been issued
Issued(t) == \E k \in DOMAIN log : log[k].table = t

\* the delete statement on table t has returned without error
Completed(t) == \E k \in DOMAIN log : log[k].table = t /\ log[k].ok

\* C20: clear_supabase_data deletes reviews, then bestsellers, then books;
\* the books delete is issued only after the other two have completed
\* without error; after a failed delete no later table is touched and the
\* function returns False; with Supabase disabled nothing is deleted and it
\* returns False
C20_ClearOrder ==
    script = "clear" =>
        /\ \A k \in DOMAIN log :
              log[k].table = <<"reviews", "bestsellers", "books">>[k]
        /\ Issued("books") => Completed("reviews") /\ Completed("bestsellers")
        /\ \A k \in DOMAIN log :
              ~log[k].ok =>
                  /\ k = Len(log)
                  /\ \A t \in Tables : ~Issued(t) => store[t] = initial[t]
                  /\ pc = "returned" /\ ret = "False"
        /\ ~enabled /\ pc = "returned" =>
              store = initial /\ log = <<>> /\ ret = "False"

\* the bestsellers delete has failed after the reviews delete: the rows of
\* books are still there and False is returned
C20_Witness ==
    /\ script = "clear" /\ pc = "returned" /\ ret = "False"
    /\ Len(log) = 2 /\ log[1].ok /\ ~log[2].ok
    /\ initial["reviews"] > 0 /\ store["reviews"] = 0
    /\ store["books"] = initial["books"] /\ store["books"] > 0

----------------------------------------------------------------------------
(* The load loop ends *)

\* the loop of fetch_news_data_from_db has been left
LoopLeft == pc \in {"fetched", "nodata", "loaded"}

\* C25: the load loop of fetch_news_data_from_db ends for every table of n
\* rows: an iteration that does not leave the loop moves the offset up by
\* exactly 1000, an empty or short page leaves it, no more than
\* n \div 1000 + 1 ranges are requested, and the loop is eventually left
C25_LoopTerminates ==
    /\ [](script = "weekly" => Len(requests) <= Len(df) \div 1000 + 1)
    /\ [][pc = "paging" =>
            LET data == RangeOf(df, cursor, cursor + 999)
            IN /\ Len(data) < 1000 => pc' = "fetched"
               /\ pc' = "paging" => cursor' = cursor + 1000
               /\ data # <<>> => cursor' = cursor + 1000]_vars
    /\ <>LoopLeft

\* a table of exactly two full pages: the loop is left at offset 2000 by
\* the empty third page
C25_Witness ==
    /\ script = "weekly" /\ pc = "fetched"
    /\ Len(df) = 2000
    /\ cursor = 2000
    /\ Len(requests) = 3

----------------------------------------------------------------------------
(* The score of calc_indicators *)

\* the months of calc_indicators that have a previous month
ScoredMonths == 1..(NumMonths - 1)

\* x limited to [-m, m]
Within(x, m) == IF x < -m THEN -m ELSE IF x > m THEN m ELSE x

\* C26: in calc_indicators every composite score lies in [-100, +100] (in
\* tenths: [-1000, 1000]) and is, up to the rounding to one decimal, the
\* equal-weight mean times 100 of the surge index / 100 limited to [-1, 1]
\* and the share shift / 5 limited to [-1, 1]; the surge index is 0 whenever
\* the previous month has no article
C26_ScoreBounded ==
    /\ script = "indicators" /\ pc # "start" =>
           \A k \in DOMAIN news : \A i \in ScoredMonths :
               news[k].vals[i] = 0 => surge_data[news[k].cat][i] = 0
    /\ script = "indicators" /\ pc \in {"viral", "done", "error"} =>
           \A k \in DOMAIN news : \A i \in ScoredMonths :
               LET c == news[k].cat
                   surge_part == Within(surge_data[c][i], 1000)   \* 1000 = 1
                   share_part == Within(share_data[c][i], 500)    \* 500 = 1
                   v == viral_data[c][i]
               IN /\ v >= -1000 /\ v <= 1000
                  /\ Abs(2 * v - (surge_part + 2 * share_part)) <= 1

\* a category with a surge above +100 % and a share shift above +5 %p in
\* the same month scores exactly +100, one whose previous month is empty
\* has the surge index 0, one with a shift below -5 %p is limited too
C26_Witness ==
    /\ script = "indicators" /\ pc = "viral"
    /\ \E k \in DOMAIN news : \E i \in ScoredMonths :
          /\ surge_data[news[k].cat][i] > 1000
          /\ share_data[news[k].cat][i] > 500
          /\ viral_data[news[k].cat][i] = 1000
    /\ \E k \in DOMAIN news : \E i \in ScoredMonths :
          /\ news[k].vals[i] = 0 /\ news[k].vals[i + 1] > 0
          /\ surge_data[news[k].cat][i] = 0
    /\ \E k \in DOMAIN news : \E i \in ScoredMonths :
          share_data[news[k].cat][i] < -500

----------------------------------------------------------------------------
(* Blank tokens of categorize_book *)

\* the tokens of the argument that are not empty after strip() and match
\* category c
MatchingWords(c) == {k \in MatchingTokens(c) : Tokens[k] # <<>>}

\* C27: categorize_book returns a category only if a non-empty token of the
\* argument contains, or is contained in, one of the keywords of that
\* category; a string whose tokens are all blank yields no category
C27_NoScoreFromBlankTokens ==
    script = "categorize" /\ pc = "done" /\ keywords_str # NoText =>
        /\ \A i \in DOMAIN categories : MatchingWords(categories[i]) # {}
        /\ (\A k \in DOMAIN Tokens : Tokens[k] = <<>>) => categories = <<>>

----------------------------------------------------------------------------
(* The requests of save_to_supabase *)

\* the positions in sent of the requests to table t
RequestsTo(t) == {k \in DOMAIN sent : sent[k].table = t}

\* the books of the argument that have a product_code, in input order
Coded == SelectSeq(books, LAMBDA b : b.product_code # "")

\* the first book of the argument with product_code c
FirstWith(c) ==
    books[CHOOSE k \in DOMAIN books :
              books[k].product_code = c
              /\ \A j \in 1..(k - 1) : books[j].product_code # c]

\* C21: the upsert into books carries exactly one record per distinct
\* non-empty product_code, that of its first occurrence in the input; the
\* insert into bestsellers carries one record per input book with a
\* non-empty product_code, in input order, duplicates kept; and every
\* product_code of a bestsellers request was sent to books by an earlier
\* request. A call that returns True has sent both lists
C21_NormalisedSave ==
    script = "save" /\ pc = "returned" =>
        /\ \A k \in RequestsTo("books") :
              /\ sent[k].op = "upsert"
              /\ {r.product_code : r \in Range(sent[k].records)}
                     = {b.product_code : b \in Range(Coded)}
              /\ \A i, j \in DOMAIN sent[k].records :
                    i # j => sent[k].records[i].product_code
                                # sent[k].records[j].product_code
              /\ \A i \in DOMAIN sent[k].records :
                    sent[k].records[i].title
                       = FirstWith(sent[k].records[i].product_code).title
        /\ \A k \in RequestsTo("bestsellers") :
              /\ sent[k].op = "insert"
              /\ Len(sent[k].records) = Len(Coded)
              /\ \A i \in DOMAIN Coded :
                    /\ sent[k].records[i].product_code = Coded[i].product_code
                    /\ sent[k].records[i].bestseller_month = Coded[i].bestseller_month
                    /\ sent[k].records[i].rank = Coded[i].rank
              /\ \A i \in DOMAIN sent[k].records :
                    \E j \in 1..(k - 1) :
                       /\ sent[j].table = "books"
                       /\ \E r \in Range(sent[j].records) :
                             r.product_code = sent[k].records[i].product_code
        /\ Cardinality(RequestsTo("books")) <= 1
        /\ Cardinality(RequestsTo("bestsellers")) <= 1
        /\ ret = "True" /\ Coded # <<>> =>
              RequestsTo("books") # {} /\ RequestsTo("bestsellers") # {}
        /\ ~enabled => sent = <<>> /\ ret = "False"

\* a product_code that occurs in two months under two titles, beside a book
\* without product_code: one books record, two bestsellers records
C21_Witness ==
    /\ script = "save" /\ pc = "returned" /\ ret = "True"
    /\ Len(books) = 3 /\ Len(Coded) = 2
    /\ Coded[1].product_code = Coded[2].product_code
    /\ Coded[1].title # Coded[2].title
    /\ Len(sent) = 2
    /\ Len(sent[1].records) = 1 /\ Len(sent[2].records) = 2

----------------------------------------------------------------------------
(* The list of get_bestseller_list *)

\* the ranks of the list are 1, 2, ... in list order, at most 20 entries
RanksInOrder ==
    /\ Len(books) <= 20
    /\ \A k \in DOMAIN books : books[k].rank = k

\* C22: get_bestseller_list returns at most 20 entries whose ranks are
\* exactly 1, 2, ..., n in list order and whose product links are pairwise
\* distinct, whatever links the page holds
C22_RanksAndDistinctLinks ==
    script = "list" /\ pc = "returned" =>
        /\ RanksInOrder
        /\ \A i, j \in DOMAIN books :
              i # j => books[i].product_url # books[j].product_url

----------------------------------------------------------------------------
(* The pages of fetch_book_reviews *)

\* page p ends the loop: a request error, no reviewList, or an empty one
Stops(p) == pages[p].status # "ok" \/ pages[p].reviewList = <<>>

\* the first page that ends the loop, max_pages + 1 if there is none
StopPage ==
    IF \E p \in DOMAIN pages : Stops(p)
    THEN CHOOSE p \in DOMAIN pages : Stops(p) /\ \A q \in 1..(p - 1) : ~Stops(q)
    ELSE counts.max_pages + 1

\* the reviews of the pages 1..n, in page order, each with the product_code
RECURSIVE ReviewsUpTo(_)
ReviewsUpTo(n) ==
    IF n = 0 THEN <<>>
    ELSE ReviewsUpTo(n - 1)
         \o [i \in DOMAIN pages[n].reviewList |->
               [page |-> n, revw |-> i, product_code |-> "S1"]]

\* C23: fetch_book_reviews requests the pages 1, 2, ... in ascending order,
\* never more than max_pages of them, and stops at the first page that is
\* empty, lacks the review list or fails with a request error; it returns
\* the reviews of the pages before that one, in page order
C23_PagesInOrder ==
    script = "reviews" =>
        /\ \A k \in DOMAIN sent : sent[k].page = k
        /\ Len(sent) <= counts.max_pages
        /\ Len(sent) <= StopPage
        /\ pc = "returned" =>
              /\ Len(sent) = IF StopPage <= counts.max_pages
                             THEN StopPage ELSE counts.max_pages
              /\ all_reviews = ReviewsUpTo(StopPage - 1)

\* two pages of reviews are kept although the third request fails
C23_Witness ==
    /\ script = "reviews" /\ pc = "returned"
    /\ Len(sent) = 3
    /\ pages[3].status = "error"
    /\ Len(pages[1].reviewList) = 2 /\ Len(pages[2].reviewList) = 1
    /\ Len(all_reviews) = 3
    /\ all_reviews[1].page = 1 /\ all_reviews[3].page = 2

----------------------------------------------------------------------------
(* The batches of save_reviews_to_supabase *)

\* the records of the requests 1..n, in the order sent
RECURSIVE SentUpTo(_)
SentUpTo(n) == IF n = 0 THEN <<>> ELSE SentUpTo(n - 1) \o sent[n].records

\* C24: save_reviews_to_supabase inserts in batches of at most 100; when it
\* returns True the batches sent, concatenated in order, are the input list;
\* when the store is not configured or the list is empty it returns False
\* and inserts nothing
C24_BatchesCoverInput ==
    script = "save_reviews" =>
        /\ \A k \in DOMAIN sent :
              /\ sent[k].table = "reviews" /\ sent[k].op = "insert"
              /\ Len(sent[k].records) <= 100
        /\ pc = "returned" /\ ret = "True" =>
              /\ SentUpTo(Len(sent)) = reviews
              /\ \A k \in DOMAIN sent : sent[k].ok
        /\ pc = "returned" /\ (~enabled \/ reviews = <<>>) =>
              ret = "False" /\ sent = <<>>

\* 201 reviews are saved in the batches of 100, 100 and 1
C24_Witness ==
    /\ script = "save_reviews" /\ pc = "returned" /\ ret = "True"
    /\ Len(reviews) = 201
    /\ Len(sent) = 3
    /\ Len(sent[1].records) = 100 /\ Len(sent[2].records) = 100
    /\ sent[3].records = <<reviews[201]>>

----------------------------------------------------------------------------
(* The updates of the categorisation scripts *)

\* the positions in sent of the updates of the book with product_code c
UpdatesOf(c) == {k \in DOMAIN sent : sent[k].product_code = c}

\* the slots of a record are filled from the left
LeftToRight(d) ==
    /\ d.category_3 # "null" => d.category_2 # "null"
    /\ d.category_2 # "null" => d.category_1 # "null"

\* C28: in the main loop of categorize_books every book is updated exactly
\* once (the books before the position of the loop once, the others not
\* yet), every update writes all three slots, filled from the left with the
\* unused ones null, and after the loop categorized_count +
\* no_category_count is the number of books
C28_EveryBookOnce ==
    script = "categorize_books" /\ pc \in {"loop", "done"} =>
        /\ \A k \in DOMAIN books :
              Cardinality(UpdatesOf(books[k].product_code))
                 = IF k < cursor THEN 1 ELSE 0
        /\ \A k \in DOMAIN sent :
              /\ LeftToRight(sent[k].data)
              /\ \E j \in DOMAIN db :
                    /\ db[j].product_code = sent[k].product_code
                    /\ db[j].category_1 = sent[k].data.category_1
                    /\ db[j].category_2 = sent[k].data.category_2
                    /\ db[j].category_3 = sent[k].data.category_3
        /\ counts.categorized_count + counts.no_category_count = cursor - 1
        /\ pc = "done" =>
              /\ Len(books) = Len(db)
              /\ counts.categorized_count + counts.no_category_count = Len(books)

\* three books are updated with one, two and no category: the slots behind
\* the categories are null, also where a category stood before
C28_Witness ==
    /\ script = "categorize_books" /\ pc = "done"
    /\ Len(books) = 3
    /\ counts.categorized_count = 2 /\ counts.no_category_count = 1
    /\ \E i, j, k \in DOMAIN db :
          /\ db[i].category_1 # "null" /\ db[i].category_2 = "null"
          /\ db[j].category_2 # "null" /\ db[j].category_3 = "null"
          /\ db[k].category_1 = "null" /\ initial[k].category_1 # "null"

----------------------------------------------------------------------------
(* The frame of the title-based categorisation *)

\* the row the table held at the start for product_code c
InitialRow(c) ==
    initial[CHOOSE j \in DOMAIN initial : initial[j].product_code = c]

\* the title t contains a keyword of some category
TitleMatches(t) ==
    /\ t # NoText
    /\ \E c \in DOMAIN CATEGORY_KEYWORDS :
       \E k \in DOMAIN CATEGORY_KEYWORDS[c].keywords :
          In(Lower(CATEGORY_KEYWORDS[c].keywords[k]), Lower(t))

\* C29: the title-based categorisation fetches only the books whose
\* category_1 is null and writes an update only for one whose title matches
\* a category; every other row of the table stays as it was, and updated +
\* still_empty is the number of books fetched
C29_OnlyUncategorisedTouched ==
    script = "categorize_by_title" /\ pc \in {"loop", "done"} =>
        /\ \A k \in DOMAIN books :
              InitialRow(books[k].product_code).category_1 = "null"
        /\ \A k \in DOMAIN sent :
              /\ InitialRow(sent[k].product_code).category_1 = "null"
              /\ TitleMatches(InitialRow(sent[k].product_code).title)
              /\ sent[k].data.category_1 # "null"
        /\ \A j \in DOMAIN db :
              \/ db[j] = initial[j]
              \/ /\ UpdatesOf(db[j].product_code) # {}
                 /\ [db[j] EXCEPT !.category_1 = "null", !.category_2 = "null",
                                  !.category_3 = "null"] = initial[j]
        /\ \A k \in DOMAIN books :
              k < cursor /\ ~TitleMatches(books[k].title) =>
                 UpdatesOf(books[k].product_code) = {}
        /\ counts.updated + counts.still_empty = cursor - 1
        /\ counts.updated = Len(sent)
        /\ pc = "done" => counts.updated + counts.still_empty = Len(books)

\* of three rows one is categorised by its title, one without category has
\* a title that matches nothing and stays as it was, and one that had a
\* category keeps it although its title matches
C29_Witness ==
    /\ script = "categorize_by_title" /\ pc = "done"
    /\ Len(db) = 3 /\ Len(books) = 2
    /\ counts.updated = 1 /\ counts.still_empty = 1
    /\ \E i, j, k \in DOMAIN db :
          /\ initial[i].category_1 = "null" /\ db[i].category_2 # "null"
          /\ initial[j].title = <<"x">> /\ db[j].category_1 = "null"
          /\ initial[k].category_1 = "tech" /\ TitleMatches(initial[k].title)
          /\ db[k] = initial[k]

====
